---- MODULE Spec2Model ----
(***************************************************************************)
(* Employee CRUD single-page application: the observable state containers  *)
(* (EmployeeListViewModel, EmployeeFormViewModel), their subscribe/notify  *)
(* mechanism, the views' re-subscribing render(), the API client's error   *)
(* translation, the data mapper, the field validators, the hash-based      *)
(* Router, the bootstrap of main.ts and the delete confirmation modal.     *)
(*                                                                         *)
(* Text values that the validators inspect (names, SSN, employee number,   *)
(* identifiers) are sequences of one-character strings; messages, which    *)
(* are only stored and compared, are plain strings.                        *)
(*                                                                         *)
(* JavaScript runs one turn at a time: an action of this module is one     *)
(* turn, from a call (or the resumption after an await) to the next await  *)
(* or return, including every notify() the turn makes and everything the   *)
(* listeners do while they are being notified.                             *)
(***************************************************************************)
EXTENDS Integers, Sequences, FiniteSets, Bags, TLC

VARIABLES
  apiVariant,    \* which of the two ApiService sources the build holds
  l_employees,   \* EmployeeListViewModel._employees
  l_state,       \* EmployeeListViewModel._state
  l_error,       \* EmployeeListViewModel._error (Null or a message)
  l_listeners,   \* EmployeeListViewModel._listeners
  l_viewUnsub,   \* EmployeeListView.unsubscribe (NoCb until first render)
  l_handles,     \* unsubscribe functions returned to other subscribers
  l_tasks,       \* the pending calls of loadEmployees / deleteEmployee
  f_formData,    \* EmployeeFormViewModel._formData
  f_errors,      \* EmployeeFormViewModel._errors
  f_state,       \* EmployeeFormViewModel._state
  f_isEditMode,  \* EmployeeFormViewModel._isEditMode
  f_employeeId,  \* EmployeeFormViewModel._employeeId (NullId or an id)
  f_listeners,   \* EmployeeFormViewModel._listeners
  f_viewUnsub,   \* EmployeeFormView.unsubscribe
  f_tasks,       \* the pending calls of initializeForEdit / submit
  f_lastInit,    \* history: the most recent initializeForAdd / initializeForEdit
  r_routes,      \* Router.routes, in insertion order
  r_currentRoute,\* Router.currentRoute
  r_fragment,    \* window.location.hash without its '#'
  r_events,      \* hashchange events dispatched and not yet handled
  m_modals,      \* the confirmation modals that are open (ModalService)
  ev             \* history: what the last turn did

listVars == <<l_employees, l_state, l_error, l_listeners, l_viewUnsub, l_handles, l_tasks>>
formVars == <<f_formData, f_errors, f_state, f_isEditMode, f_employeeId, f_listeners,
              f_viewUnsub, f_tasks, f_lastInit>>
routerVars == <<r_routes, r_currentRoute, r_fragment, r_events>>
modalVars == <<m_modals>>
vars == <<apiVariant, listVars, formVars, routerVars, modalVars, ev>>

(***************************************************************************)
(* Bounds of the model.                                                    *)
(***************************************************************************)
MaxListeners == 3
MaxHandles == 2
MaxTasks == 2
MaxFormTasks == 2
MaxEvents == 2
MaxModals == 2

(***************************************************************************)
(* Values.                                                                 *)
(***************************************************************************)
Null == "null"
Absent == "<absent>"
Undefined == <<"undefined">>
NullId == <<"null">>
\* A wire status code: a number, or undefined (the field is missing).
StatusCode(n) == [defined |-> TRUE, n |-> n]
UndefinedStatus == [defined |-> FALSE, n |-> 0]

Digits == {"0", "1", "2", "3", "4", "5", "6", "7", "8", "9"}
Letters == {"a", "b", "c", "d", "e", "f", "g", "h", "i", "j", "k", "l", "m",
            "n", "o", "p", "q", "r", "s", "t", "u", "v", "w", "x", "y", "z",
            "A", "B", "C", "D", "E", "F", "G", "H", "I", "J", "K", "L", "M",
            "N", "O", "P", "Q", "R", "S", "T", "U", "V", "W", "X", "Y", "Z"}
WhiteSpace == {" ", "\t", "\n"}

Id1 == <<"p", "1">>
Id2 == <<"p", "2">>
Ids == {Id1, Id2}

SsnGood == <<"1", "2", "3", "-", "4", "5", "-", "6", "7", "8", "9">>
NameAl == <<"A", "l">>
NameLi == <<"L", "i">>
NameA == <<"A">>
EmpNo7 == <<"E", "7">>
Empty == <<>>

\* Wire employees (EmployeeApiResponse) the remote service holds.
Wire1 == [PersonID |-> Id1, FirstName |-> NameAl, LastName |-> NameLi,
          SSN |-> SsnGood, EmployeeNo |-> EmpNo7, Status |-> StatusCode(0)]
Wire2 == [PersonID |-> Id2, FirstName |-> NameLi, LastName |-> NameAl,
          SSN |-> SsnGood, EmployeeNo |-> Undefined, Status |-> StatusCode(7)]
\* The object {} read as a wire employee: every field is undefined.
WireEmptyObject == [PersonID |-> Undefined, FirstName |-> Undefined, LastName |-> Undefined,
                    SSN |-> Undefined, EmployeeNo |-> Undefined, Status |-> UndefinedStatus]

(***************************************************************************)
(* Data mapper (models/Employee.ts).                                       *)
(***************************************************************************)
\* A mapper that takes every status but 1 for active.
fromApiResponseActiveUnlessOne(apiEmployee) ==
  [id |-> apiEmployee.PersonID,
   ssn |-> apiEmployee.SSN,
   firstName |-> apiEmployee.FirstName,
   lastName |-> apiEmployee.LastName,
   active |-> (apiEmployee.Status # StatusCode(1))]

fromApiResponse(apiEmployee) ==
  [id |-> apiEmployee.PersonID,
   ssn |-> apiEmployee.SSN,
   firstName |-> apiEmployee.FirstName,
   lastName |-> apiEmployee.LastName,
   active |-> (apiEmployee.Status = StatusCode(0))]

MapFromApi(ws) == [i \in 1..Len(ws) |-> fromApiResponse(ws[i])]

\* employee: a Partial<Employee>, a missing field being Undefined; existingId
\* as passed by updateEmployee, Undefined when not passed.  '', undefined and
\* null are falsy.
Falsy(s) == s \in {Empty, Undefined, NullId}

toApiRequest(employee, existingId) ==
  [PersonID |-> IF (~Falsy(employee.id)) \/ (~Falsy(existingId))
                THEN (IF ~Falsy(employee.id) THEN employee.id ELSE existingId)
                ELSE Undefined,
   FirstName |-> employee.firstName,
   LastName |-> employee.lastName,
   SSN |-> employee.ssn,
   Status |-> IF employee.active THEN StatusCode(0) ELSE StatusCode(1)]

(***************************************************************************)
(* HTTP as the API client sees it.  fetch() either rejects (transport      *)
(* failure) or resolves with a response: a status, whether the             *)
(* content-type header names JSON, and a body.  A body is empty, non-JSON  *)
(* text, a JSON array of wire employees, a JSON object that is one wire    *)
(* employee, or a JSON object with message / error fields ('' standing     *)
(* for a missing or empty field).                                          *)
(***************************************************************************)
BodyEmpty == [kind |-> "empty", items |-> <<>>, message |-> "", error |-> "", text |-> ""]
BodyText == [kind |-> "text", items |-> <<>>, message |-> "", error |-> "", text |-> "Service unavailable"]
BodyArr(ws) == [kind |-> "arr", items |-> ws, message |-> "", error |-> "", text |-> "[..]"]
BodyObj(w) == [kind |-> "obj", items |-> <<w>>, message |-> "", error |-> "", text |-> "{..}"]
BodyErr(m, e) == [kind |-> "err", items |-> <<>>, message |-> m, error |-> e, text |-> "{..}"]

Response(status, ctJson, body) == [net |-> FALSE, status |-> status, ctJson |-> ctJson, body |-> body]
NetworkFailure == [net |-> TRUE, status |-> 0, ctJson |-> FALSE, body |-> BodyEmpty]

ResponseOk(resp) == resp.status >= 200 /\ resp.status <= 299

StatusLine(resp) ==
  CASE resp.status = 404 -> "API Error: 404 Not Found"
    [] resp.status = 500 -> "API Error: 500 Internal Server Error"
    [] resp.status = 400 -> "API Error: 400 Bad Request"
    [] OTHER -> "API Error: ??? "

IsJson(body) == body.kind \in {"arr", "obj", "err"}

\* What JSON.parse of the body yields, as the mapper will read it: an array of
\* wire employees, or one object (an object that is no wire employee reads as
\* one whose fields are all undefined).
DataOf(body) ==
  CASE body.kind = "arr" -> [isArray |-> TRUE, items |-> body.items]
    [] body.kind = "obj" -> [isArray |-> FALSE, items |-> body.items]
    [] OTHER -> [isArray |-> FALSE, items |-> <<WireEmptyObject>>]
EmptyObjectData == [isArray |-> FALSE, items |-> <<WireEmptyObject>>]

\* Errors: name is the JavaScript class; status 0 stands for "no status".
ApiError(message, status) == [name |-> "ApiError", message |-> message, status |-> status]
TypeError(message) == [name |-> "TypeError", message |-> message, status |-> 0]
SyntaxError(message) == [name |-> "SyntaxError", message |-> message, status |-> 0]

Resolved(data) == [ok |-> TRUE, data |-> data, err |-> ApiError("", 0)]
Rejected(err) == [ok |-> FALSE, data |-> EmptyObjectData, err |-> err]

\* The message extracted from a parsed JSON error body, else the status line.
JsonMessage(resp) ==
  IF resp.body.kind = "err" /\ (resp.body.message # "" \/ resp.body.error # "")
  THEN (IF resp.body.message # "" THEN resp.body.message ELSE resp.body.error)
  ELSE StatusLine(resp)

\* services/ApiService.ts: response.json() consumes the body, so the
\* response.text() of the catch block rejects with a TypeError, which leaves
\* handleResponse; a success without a JSON content-type yields {}.
handleResponsePlain(resp) ==
  IF ~ResponseOk(resp)
  THEN (IF IsJson(resp.body)
        THEN Rejected(ApiError(JsonMessage(resp), resp.status))
        ELSE Rejected(TypeError("body stream already read")))
  ELSE IF ~resp.ctJson THEN Resolved(EmptyObjectData)
  ELSE IF IsJson(resp.body) THEN Resolved(DataOf(resp.body))
  ELSE Rejected(SyntaxError("Unexpected end of JSON input"))

\* The second ApiService source: clones the response before each read, and
\* reads a success body as text before parsing it.
handleResponseClone(resp) ==
  IF ~ResponseOk(resp)
  THEN (IF IsJson(resp.body)
        THEN Rejected(ApiError(JsonMessage(resp), resp.status))
        ELSE IF resp.body.text # ""
        THEN Rejected(ApiError(resp.body.text, resp.status))
        ELSE Rejected(ApiError(StatusLine(resp), resp.status)))
  ELSE IF IsJson(resp.body) THEN Resolved(DataOf(resp.body))
  ELSE Resolved(EmptyObjectData)

handleResponse(variant, resp) ==
  IF variant = "plain" THEN handleResponsePlain(resp) ELSE handleResponseClone(resp)

\* catch (error) of every operation: an ApiError passes, anything else is
\* wrapped into an ApiError without status.
Wrap(prefix, r) ==
  IF r.ok \/ r.err.name = "ApiError" THEN r
  ELSE Rejected(ApiError(prefix \o r.err.message, 0))

\* fetch() followed by handleResponse.
Fetched(variant, outcome) ==
  IF outcome.net THEN Rejected(TypeError("Failed to fetch"))
  ELSE handleResponse(variant, outcome)

\* The operations resolve with .value or reject with .err.
AllValue(r) ==
  IF r.ok
  THEN [ok |-> TRUE, value |-> MapFromApi(r.data.items), err |-> r.err]
  ELSE [ok |-> FALSE, value |-> <<>>, err |-> r.err]

getAllEmployees(variant, outcome) ==
  IF variant = "clone" /\ ~outcome.net /\ outcome.status = 404
  THEN [ok |-> TRUE, value |-> <<>>, err |-> ApiError("", 0)]
  ELSE AllValue(Wrap("Failed to fetch employees: ", Fetched(variant, outcome)))

OneValue(r) ==
  IF r.ok
  THEN [ok |-> TRUE,
        value |-> fromApiResponse(IF r.data.isArray THEN WireEmptyObject ELSE r.data.items[1]),
        err |-> r.err]
  ELSE [ok |-> FALSE, value |-> fromApiResponse(WireEmptyObject), err |-> r.err]

getEmployee(variant, outcome) ==
  OneValue(Wrap("Failed to fetch employee: ", Fetched(variant, outcome)))

createEmployee(variant, outcome) ==
  OneValue(Wrap("Failed to create employee: ", Fetched(variant, outcome)))

updateEmployee(variant, outcome) ==
  OneValue(Wrap("Failed to update employee: ", Fetched(variant, outcome)))

deleteEmployeeApi(variant, outcome) ==
  LET r == Wrap("Failed to delete employee: ", Fetched(variant, outcome))
  IN [ok |-> r.ok, err |-> r.err]

\* The requests the operations send, as the remote service sees them.
GeneratedId == <<"u", "u", "i", "d">>
\* target is the id in the URL, <<>> when the URL names none.
NoTarget == <<>>
NoPayload == [none |-> TRUE]
RequestGetAll == [method |-> "GET", target |-> NoTarget, payload |-> NoPayload]
RequestGet(id) == [method |-> "GET", target |-> id, payload |-> NoPayload]
RequestDelete(id) == [method |-> "DELETE", target |-> id, payload |-> NoPayload]
RequestCreate(employee) ==
  [method |-> "POST", target |-> NoTarget,
   payload |-> toApiRequest([employee EXCEPT !.id = IF Falsy(employee.id) THEN GeneratedId ELSE employee.id],
                            Undefined)]
RequestUpdate(id, employee) ==
  [method |-> "PUT", target |-> NoTarget, payload |-> toApiRequest(employee, id)]

(***************************************************************************)
(* Listeners.  A callback is identified by its function object: a plain    *)
(* callback some other subscriber passes, or the closure a view's          *)
(* subscribeToViewModel creates (a new function object at every call).     *)
(***************************************************************************)
PlainFns == {"fn", "g"}
Plain(f) == [kind |-> "plain", id |-> f]
\* The closure a view has subscribed.  Every subscribeToViewModel() creates a
\* new function object, but only after it has removed the view's previous one
\* from the list, so the list never holds two of them and one name serves.
RenderClosure == [kind |-> "render", id |-> "view"]
NoCb == [kind |-> "none", id |-> ""]

Range(seq) == {seq[i] : i \in 1..Len(seq)}

\* Array.prototype.indexOf: the first index holding cb, 0 when there is none.
IndexOf(ls, cb) ==
  IF cb \in Range(ls) THEN CHOOSE i \in 1..Len(ls) : ls[i] = cb /\ \A j \in 1..(i - 1) : ls[j] # cb
  ELSE 0

\* splice(index, 1)
RemoveAt(ls, i) == [j \in 1..(Len(ls) - 1) |-> IF j < i THEN ls[j] ELSE ls[j + 1]]

\* subscribe(listener): the push.
subscribe(ls, cb) == Append(ls, cb)

\* The function subscribe returns: closes over the listener, not over the
\* registration.
unsubscribe(ls, cb) ==
  IF IndexOf(ls, cb) > 0 THEN RemoveAt(ls, IndexOf(ls, cb)) ELSE ls

\* View.render() as far as the container sees it: subscribeToViewModel drops
\* the view's previous subscription and subscribes a new closure.
subscribeToViewModel(ls, vu) ==
  LET ls1 == IF vu # NoCb THEN unsubscribe(ls, vu) ELSE ls
  IN [ls |-> subscribe(ls1, RenderClosure), vu |-> RenderClosure]

\* Array.prototype.forEach over _listeners: indices 1..n for the length n the
\* array had when forEach began, each read from the array as it is when its
\* turn comes; an index past the current end is skipped.  A view's closure
\* calls render().
RECURSIVE ForEachLive(_, _, _, _, _)
ForEachLive(ls, vu, k, n, called) ==
  IF k > n THEN [ls |-> ls, vu |-> vu, called |-> called]
  ELSE IF k > Len(ls) THEN ForEachLive(ls, vu, k + 1, n, called)
  ELSE IF ls[k].kind = "render"
       THEN LET r == subscribeToViewModel(ls, vu)
            IN ForEachLive(r.ls, r.vu, k + 1, n, Append(called, ls[k]))
       ELSE ForEachLive(ls, vu, k + 1, n, Append(called, ls[k]))

forEach(ls, vu) == ForEachLive(ls, vu, 1, Len(ls), <<>>)

\* notify(): the listeners after it, the view's unsubscribe after it, and a
\* note of which listeners were registered when it began and which it called.
notify(ls, vu) ==
  LET r == forEach(ls, vu)
  IN [ls |-> r.ls, vu |-> r.vu, note |-> [before |-> ls, called |-> r.called]]

(***************************************************************************)
(* Calls of the asynchronous operations.  The pending calls of a container *)
(* form a bag; a pending call holds its log: in order, the notifications   *)
(* it made (with the state a listener reads at that moment), the requests  *)
(* it issued and the settlements it resumed from.  The turn in which a     *)
(* call returns takes it out of the bag and reports it, with its whole log *)
(* and its return value, in ev.done.                                       *)
(***************************************************************************)
NoTask == [op |-> "none", pc |-> "idle", log |-> <<>>]

Pending(tasks) == BagToSet(tasks)
HasRoom(tasks, max) == BagCardinality(tasks) < max
Add(tasks, call) == tasks (+) SetToBag({call})
Remove(tasks, call) == tasks (-) SetToBag({call})

Notified(state, error) == [k |-> "notify", state |-> state, error |-> error]
\* The notify() inside validate(), which leaves the state as it finds it.
NotifiedByValidate == [k |-> "notify", by |-> "validate"]
Requested(req) == [k |-> "request", req |-> req]
Settled(ok) == [k |-> "settled", ok |-> ok]

Done(op, log, ret) == [op |-> op, log |-> log, ret |-> ret]

(***************************************************************************)
(* What the remote service may answer.                                     *)
(***************************************************************************)
GetAllOutcomes ==
  { NetworkFailure,
    Response(200, TRUE, BodyArr(<<>>)),
    Response(200, TRUE, BodyArr(<<Wire1>>)),
    Response(200, TRUE, BodyArr(<<Wire1, Wire2>>)),
    Response(200, TRUE, BodyObj(Wire2)),
    Response(200, FALSE, BodyEmpty),
    Response(404, FALSE, BodyEmpty),
    Response(404, TRUE, BodyErr("No employees found", "")),
    Response(500, TRUE, BodyErr("", "Server exploded")),
    Response(500, FALSE, BodyText) }

DeleteOutcomes ==
  { NetworkFailure,
    Response(200, FALSE, BodyEmpty),
    Response(404, TRUE, BodyErr("Employee not found", "")),
    Response(500, FALSE, BodyEmpty) }

(***************************************************************************)
(* EmployeeListViewModel.                                                  *)
(***************************************************************************)
ListEvent(op, t, notes) == [op |-> op, task |-> t, notes |-> notes]

\* loadEmployees() without its first notify().
LoadBeginSilent(others, log, op) ==
  LET call == [op |-> op, pc |-> "awaitFetch", overlapped |-> BagCardinality(others),
               log |-> log \o <<Requested(RequestGetAll)>>]
  IN
  /\ l_state' = "loading"
  /\ l_error' = Null
  /\ l_tasks' = Add(others, call)
  /\ ev' = ListEvent(IF op = "load" THEN "loadEmployees" ELSE "deleteSucceeded", call, <<>>)
  /\ UNCHANGED <<l_employees, l_listeners, l_viewUnsub>>

\* The first turn of loadEmployees(), run for a call with the log it has so
\* far, the other pending calls being others (the call keeps their number,
\* which tells it from a call that started earlier): state and error are set,
\* notify() runs, getAllEmployees() issues its request, and the call waits.
LoadBegin(others, log, op) ==
  LET n == notify(l_listeners, l_viewUnsub)
      call == [op |-> op, pc |-> "awaitFetch", overlapped |-> BagCardinality(others),
               log |-> log \o <<Notified("loading", Null), Requested(RequestGetAll)>>]
  IN /\ l_state' = "loading"
     /\ l_error' = Null
     /\ l_listeners' = n.ls
     /\ l_viewUnsub' = n.vu
     /\ l_tasks' = Add(others, call)
     /\ ev' = ListEvent(IF op = "load" THEN "loadEmployees" ELSE "deleteSucceeded", call, <<n.note>>)
     /\ UNCHANGED l_employees

\* loadEmployees() called from outside.
LoadEmployees ==
  /\ HasRoom(l_tasks, MaxTasks)
  /\ LoadBegin(l_tasks, <<>>, "load")
  /\ UNCHANGED <<apiVariant, routerVars, modalVars, l_handles, formVars>>

\* The message the catch blocks of the containers store.
ErrorMessage(err, default) == IF err.name = "ApiError" THEN err.message ELSE default

\* A catch block that forgets to empty the collection.
LoadResultKeepsCollection(r) ==
  IF r.ok
  THEN [employees |-> r.value, state |-> "loaded", error |-> Null]
  ELSE [employees |-> l_employees, state |-> "error",
        error |-> ErrorMessage(r.err, "Failed to load employees. Please try again.")]

\* The collection, state and error loadEmployees() leaves when its fetch has
\* settled with r: the try and catch blocks.
LoadResult(r) ==
  IF r.ok
  THEN [employees |-> r.value, state |-> "loaded", error |-> Null]
  ELSE [employees |-> <<>>, state |-> "error",
        error |-> ErrorMessage(r.err, "Failed to load employees. Please try again.")]

\* A deleteEmployee() that returns what its reload achieved.
LoadSettleReturnsReloadResult(t, outcome) ==
  LET r == getAllEmployees(apiVariant, outcome)
      res == LoadResult(r)
      n == notify(l_listeners, l_viewUnsub)
  IN /\ BagIn(t, l_tasks) /\ t.pc = "awaitFetch"
     /\ l_employees' = res.employees
     /\ l_state' = res.state
     /\ l_error' = res.error
     /\ l_listeners' = n.ls
     /\ l_viewUnsub' = n.vu
     /\ l_tasks' = Remove(l_tasks, t)
     /\ ev' = ListEvent("loadSettled", NoTask, <<n.note>>) @@
              [ok |-> r.ok, value |-> r.value, err |-> r.err,
               net |-> outcome.net, status |-> outcome.status, outcome |-> outcome,
               overlapped |-> t.overlapped,
               done |-> Done(t.op,
                             t.log \o <<Settled(r.ok), Notified(res.state, res.error)>>,
                             IF t.op = "delete"
                             THEN (IF r.ok THEN "true" ELSE "false") ELSE "void")]
     /\ UNCHANGED <<apiVariant, routerVars, modalVars, l_handles, formVars>>

\* A loadEmployees() that drops its result while another call is pending.
LoadSettleUnlessOverlapped(t, outcome) ==
  LET r == getAllEmployees(apiVariant, outcome)
      res == IF Remove(l_tasks, t) = EmptyBag THEN LoadResult(r)
             ELSE [employees |-> l_employees, state |-> l_state, error |-> l_error]
      n == notify(l_listeners, l_viewUnsub)
  IN /\ BagIn(t, l_tasks) /\ t.pc = "awaitFetch"
     /\ l_employees' = res.employees
     /\ l_state' = res.state
     /\ l_error' = res.error
     /\ l_listeners' = n.ls
     /\ l_viewUnsub' = n.vu
     /\ l_tasks' = Remove(l_tasks, t)
     /\ ev' = ListEvent("loadSettled", NoTask, <<n.note>>) @@
              [ok |-> r.ok, value |-> r.value, err |-> r.err,
               net |-> outcome.net, status |-> outcome.status, outcome |-> outcome,
               overlapped |-> t.overlapped,
               done |-> Done(t.op,
                             t.log \o <<Settled(r.ok), Notified(res.state, res.error)>>,
                             IF t.op = "delete" THEN "true" ELSE "void")]
     /\ UNCHANGED <<apiVariant, routerVars, modalVars, l_handles, formVars>>

\* The fetch of a loadEmployees() settles: try / catch / finally, then the
\* return; a deleteEmployee() that awaited the reload returns true.
LoadSettle(t, outcome) ==
  LET r == getAllEmployees(apiVariant, outcome)
      res == LoadResult(r)
      n == notify(l_listeners, l_viewUnsub)
  IN /\ BagIn(t, l_tasks) /\ t.pc = "awaitFetch"
     /\ l_employees' = res.employees
     /\ l_state' = res.state
     /\ l_error' = res.error
     /\ l_listeners' = n.ls
     /\ l_viewUnsub' = n.vu
     /\ l_tasks' = Remove(l_tasks, t)
     /\ ev' = ListEvent("loadSettled", NoTask, <<n.note>>) @@
              [ok |-> r.ok, value |-> r.value, err |-> r.err,
               net |-> outcome.net, status |-> outcome.status, outcome |-> outcome,
               overlapped |-> t.overlapped,
               done |-> Done(t.op,
                             t.log \o <<Settled(r.ok), Notified(res.state, res.error)>>,
                             IF t.op = "delete" THEN "true" ELSE "void")]
     /\ UNCHANGED <<apiVariant, routerVars, modalVars, l_handles, formVars>>

\* deleteEmployee(id) called from outside: apiService.deleteEmployee(id)
\* issues its request and the call waits; nothing is set, nobody is notified.
DeleteEmployee(id) ==
  /\ HasRoom(l_tasks, MaxTasks)
  /\ LET call == [op |-> "delete", pc |-> "awaitDelete", log |-> <<Requested(RequestDelete(id))>>]
     IN /\ l_tasks' = Add(l_tasks, call)
        /\ ev' = ListEvent("deleteEmployee", call, <<>>) @@ [empsBefore |-> l_employees]
  /\ UNCHANGED <<apiVariant, routerVars, modalVars, l_employees, l_state, l_error, l_listeners, l_viewUnsub,
                 l_handles, formVars>>

\* A catch block of deleteEmployee() written like that of loadEmployees().
DeleteFailedLikeLoad(t, r, outcome) ==
  LET error2 == ErrorMessage(r.err, "Failed to delete employee. Please try again.")
      n == notify(l_listeners, l_viewUnsub)
  IN /\ l_error' = error2
     /\ l_state' = "error"
     /\ l_employees' = <<>>
     /\ l_listeners' = n.ls
     /\ l_viewUnsub' = n.vu
     /\ l_tasks' = Remove(l_tasks, t)
     /\ ev' = ListEvent("deleteFailed", NoTask, <<n.note>>) @@
              [err |-> r.err, outcome |-> outcome, empsBefore |-> l_employees,
               done |-> Done("delete",
                             t.log \o <<Settled(FALSE), Notified("error", error2)>>,
                             "false")]

\* The remove request settles with a failure: the catch block.
DeleteFailed(t, r, outcome) ==
  LET error2 == ErrorMessage(r.err, "Failed to delete employee. Please try again.")
      n == notify(l_listeners, l_viewUnsub)
  IN /\ l_error' = error2
     /\ l_listeners' = n.ls
     /\ l_viewUnsub' = n.vu
     /\ l_tasks' = Remove(l_tasks, t)
     /\ ev' = ListEvent("deleteFailed", NoTask, <<n.note>>) @@
              [err |-> r.err, outcome |-> outcome, empsBefore |-> l_employees,
               done |-> Done("delete",
                             t.log \o <<Settled(FALSE), Notified(l_state, error2)>>,
                             "false")]
     /\ UNCHANGED <<l_employees, l_state>>

\* The remove request settles: on success loadEmployees() starts in the same
\* turn and deleteEmployee awaits it.
DeleteSettle(t, outcome) ==
  LET r == deleteEmployeeApi(apiVariant, outcome)
  IN /\ BagIn(t, l_tasks) /\ t.pc = "awaitDelete"
     /\ IF r.ok
        THEN LoadBegin(Remove(l_tasks, t), Append(t.log, Settled(TRUE)), "delete")
        ELSE DeleteFailed(t, r, outcome)
     /\ UNCHANGED <<apiVariant, routerVars, modalVars, l_handles, formVars>>

\* clearError()
ClearError ==
  LET n == notify(l_listeners, l_viewUnsub)
  IN /\ l_error' = Null
     /\ l_listeners' = n.ls
     /\ l_viewUnsub' = n.vu
     /\ ev' = ListEvent("clearError", NoTask, <<n.note>>)
     /\ UNCHANGED <<apiVariant, routerVars, modalVars, l_employees, l_state, l_handles, l_tasks, formVars>>

\* subscribe(fn) by a subscriber other than the view, which keeps the
\* function it gets back.  calls counts the invocations of that function,
\* 2 standing for two or more.
ListSubscribe(f) ==
  /\ Len(l_listeners) < MaxListeners
  /\ Len(l_handles) < MaxHandles
  /\ l_listeners' = subscribe(l_listeners, Plain(f))
  /\ l_handles' = Append(l_handles, [cb |-> Plain(f), calls |-> 0])
  /\ ev' = ListEvent("subscribe", NoTask, <<>>)
  /\ UNCHANGED <<apiVariant, routerVars, modalVars, l_employees, l_state, l_error, l_viewUnsub, l_tasks, formVars>>

\* The subscriber invokes the function subscribe returned to it.
ListUnsubscribe(h) ==
  /\ h \in 1..Len(l_handles)
  /\ l_listeners' = unsubscribe(l_listeners, l_handles[h].cb)
  /\ l_handles' = [l_handles EXCEPT ![h].calls = IF @ < 2 THEN @ + 1 ELSE @]
  /\ ev' = ListEvent("unsubscribe", NoTask, <<>>) @@
           [cb |-> l_handles[h].cb, nth |-> l_handles[h].calls + 1, lsBefore |-> l_listeners]
  /\ UNCHANGED <<apiVariant, routerVars, modalVars, l_employees, l_state, l_error, l_viewUnsub, l_tasks, formVars>>

\* EmployeeListView.render() called from outside (showEmployeeList).
ListViewRender ==
  LET r == subscribeToViewModel(l_listeners, l_viewUnsub)
  IN /\ Len(l_listeners) < MaxListeners \/ l_viewUnsub \in Range(l_listeners)
     /\ l_listeners' = r.ls
     /\ l_viewUnsub' = r.vu
     /\ ev' = ListEvent("render", NoTask, <<>>)
     /\ UNCHANGED <<apiVariant, routerVars, modalVars, l_employees, l_state, l_error, l_handles, l_tasks, formVars>>

\* EmployeeListView.destroy()
ListViewDestroy ==
  /\ l_viewUnsub # NoCb
  /\ l_listeners' = unsubscribe(l_listeners, l_viewUnsub)
  /\ ev' = ListEvent("destroy", NoTask, <<>>)
  /\ UNCHANGED <<apiVariant, routerVars, modalVars, l_employees, l_state, l_error, l_viewUnsub, l_handles, l_tasks,
                 formVars>>

(***************************************************************************)
(* Field validators.  A result is { isValid, error }, error being Absent   *)
(* when the value is valid.                                                *)
(***************************************************************************)
MinNameLength == 2
MaxNameLength == 50
MinEmployeeNoLength == 1
MaxEmployeeNoLength == 20

RECURSIVE trimStart(_)
trimStart(s) == IF s # <<>> /\ Head(s) \in WhiteSpace THEN trimStart(Tail(s)) ELSE s
RECURSIVE trimEnd(_)
trimEnd(s) ==
  IF s # <<>> /\ s[Len(s)] \in WhiteSpace THEN trimEnd(SubSeq(s, 1, Len(s) - 1)) ELSE s
\* String.prototype.trim
trim(s) == trimEnd(trimStart(s))

Valid == [isValid |-> TRUE, error |-> Absent]
Invalid(error) == [isValid |-> FALSE, error |-> error]

\* /^\d{3}-\d{2}-\d{4}$/
ssnPattern(s) ==
  /\ Len(s) = 11
  /\ \A i \in 1..11 : IF i \in {4, 7} THEN s[i] = "-" ELSE s[i] \in Digits
\* /^[a-zA-Z\s'-]+$/
namePattern(s) == s # <<>> /\ \A i \in 1..Len(s) : s[i] \in Letters \cup WhiteSpace \cup {"'", "-"}
\* /^[a-zA-Z0-9_-]+$/
employeeNoPattern(s) == s # <<>> /\ \A i \in 1..Len(s) : s[i] \in Letters \cup Digits \cup {"_", "-"}

validateSSN(ssn) ==
  IF Falsy(ssn) \/ trim(ssn) = <<>> THEN Invalid("SSN is required")
  ELSE IF ~ssnPattern(trim(ssn)) THEN Invalid("SSN must be in format XXX-XX-XXXX")
  ELSE Valid

validateFirstName(firstName) ==
  IF Falsy(firstName) \/ trim(firstName) = <<>> THEN Invalid("First name is required")
  ELSE IF Len(trim(firstName)) < MinNameLength
  THEN Invalid("First name must be at least 2 characters")
  ELSE IF Len(trim(firstName)) > MaxNameLength
  THEN Invalid("First name must be less than 50 characters")
  ELSE IF ~namePattern(trim(firstName))
  THEN Invalid("First name can only contain letters, spaces, hyphens, and apostrophes")
  ELSE Valid

\* A validateLastName that rejects a name of exactly the maximal length.
validateLastNameBelowMax(lastName) ==
  IF Falsy(lastName) \/ trim(lastName) = <<>> THEN Invalid("Last name is required")
  ELSE IF Len(trim(lastName)) < MinNameLength
  THEN Invalid("Last name must be at least 2 characters")
  ELSE IF Len(trim(lastName)) >= MaxNameLength
  THEN Invalid("Last name must be less than 50 characters")
  ELSE IF ~namePattern(trim(lastName))
  THEN Invalid("Last name can only contain letters, spaces, hyphens, and apostrophes")
  ELSE Valid

validateLastName(lastName) ==
  IF Falsy(lastName) \/ trim(lastName) = <<>> THEN Invalid("Last name is required")
  ELSE IF Len(trim(lastName)) < MinNameLength
  THEN Invalid("Last name must be at least 2 characters")
  ELSE IF Len(trim(lastName)) > MaxNameLength
  THEN Invalid("Last name must be less than 50 characters")
  ELSE IF ~namePattern(trim(lastName))
  THEN Invalid("Last name can only contain letters, spaces, hyphens, and apostrophes")
  ELSE Valid

validateEmployeeNo(employeeNo) ==
  IF Falsy(employeeNo) \/ trim(employeeNo) = <<>> THEN Invalid("Employee number is required")
  ELSE IF Len(trim(employeeNo)) < MinEmployeeNoLength
  THEN Invalid("Employee number cannot be empty")
  ELSE IF Len(trim(employeeNo)) > MaxEmployeeNoLength
  THEN Invalid("Employee number must be less than 20 characters")
  ELSE IF ~employeeNoPattern(trim(employeeNo))
  THEN Invalid("Employee number can only contain letters, numbers, hyphens, and underscores")
  ELSE Valid

(***************************************************************************)
(* EmployeeFormViewModel.                                                  *)
(***************************************************************************)
EmptyFormData == [firstName |-> Empty, lastName |-> Empty, ssn |-> Empty,
                  employeeNo |-> Empty, active |-> TRUE]
\* _errors: a slot whose key is not in the object is Absent.
NoErrors == [firstName |-> Absent, lastName |-> Absent, ssn |-> Absent,
             employeeNo |-> Absent, general |-> Absent]

\* What the remote service may answer to GET /Employees(id) and to a write.
GetOutcomes ==
  { Response(200, TRUE, BodyObj(Wire1)),
    Response(404, TRUE, BodyErr("Employee not found", "")) }

WriteOutcomes ==
  { Response(200, TRUE, BodyObj(Wire1)),
    Response(400, TRUE, BodyErr("", "SSN already in use")) }

\* What the user may enter into a field.
NamePadded == <<" ", "L", "i", " ">>
FieldValues(field) ==
  CASE field = "firstName" -> {NameA, NameAl}
    [] field = "lastName" -> {NamePadded}
    [] field = "ssn" -> {SsnGood}
    [] field = "employeeNo" -> {EmpNo7}
Fields == {"firstName", "lastName", "ssn", "employeeNo"}

FormEvent(op, t, notes) == [op |-> op, task |-> t, notes |-> notes]

\* What a listener reads from the getters while a notify() calls it.
Seen(formData, errors, state, isEditMode) ==
  [formData |-> formData, errors |-> errors, state |-> state, isEditMode |-> isEditMode]

\* An initializeForAdd() that notifies before it resets anything.
InitializeForAddNotifiesFirst ==
  LET n == notify(f_listeners, f_viewUnsub)
  IN /\ f_isEditMode' = FALSE
     /\ f_employeeId' = NullId
     /\ f_formData' = EmptyFormData
     /\ f_errors' = NoErrors
     /\ f_state' = "idle"
     /\ f_listeners' = n.ls
     /\ f_viewUnsub' = n.vu
     /\ f_lastInit' = [mode |-> "add", id |-> NullId]
     /\ ev' = FormEvent("initializeForAdd", NoTask, <<n.note>>) @@
              [seen |-> Seen(f_formData, f_errors, f_state, f_isEditMode)]
     /\ UNCHANGED <<apiVariant, routerVars, modalVars, listVars, f_tasks>>

\* initializeForAdd()
InitializeForAdd ==
  LET n == notify(f_listeners, f_viewUnsub)
  IN /\ f_isEditMode' = FALSE
     /\ f_employeeId' = NullId
     /\ f_formData' = EmptyFormData
     /\ f_errors' = NoErrors
     /\ f_state' = "idle"
     /\ f_listeners' = n.ls
     /\ f_viewUnsub' = n.vu
     /\ f_lastInit' = [mode |-> "add", id |-> NullId]
     /\ ev' = FormEvent("initializeForAdd", NoTask, <<n.note>>) @@
              [seen |-> Seen(EmptyFormData, NoErrors, "idle", FALSE)]
     /\ UNCHANGED <<apiVariant, routerVars, modalVars, listVars, f_tasks>>

\* initializeForEdit(employeeId), up to its await: getEmployee() has issued
\* its request.
InitializeForEdit(employeeId) ==
  LET n == notify(f_listeners, f_viewUnsub)
      call == [op |-> "edit", pc |-> "awaitGet",
               log |-> <<Notified("loading", NoErrors), Requested(RequestGet(employeeId))>>]
  IN /\ HasRoom(f_tasks, MaxFormTasks)
     /\ f_isEditMode' = TRUE
     /\ f_employeeId' = employeeId
     /\ f_state' = "loading"
     /\ f_errors' = NoErrors
     /\ f_listeners' = n.ls
     /\ f_viewUnsub' = n.vu
     /\ f_tasks' = Add(f_tasks, call)
     /\ f_lastInit' = [mode |-> "edit", id |-> employeeId]
     /\ ev' = FormEvent("initializeForEdit", call, <<n.note>>)
     /\ UNCHANGED <<apiVariant, routerVars, modalVars, listVars, f_formData>>

\* The draft initializeForEdit() builds from the fetched employee.
DraftOf(employee) ==
  [firstName |-> employee.firstName,
   lastName |-> employee.lastName,
   ssn |-> employee.ssn,
   employeeNo |-> Empty,
   active |-> employee.active]

\* An initializeForEdit() whose catch records the message but not the state.
EditSettleFailureKeepsState(t, outcome) ==
  LET r == getEmployee(apiVariant, outcome)
      errors2 == IF r.ok THEN NoErrors
                 ELSE [f_errors EXCEPT !.general =
                         ErrorMessage(r.err, "Failed to load employee data. Please try again.")]
      state2 == IF r.ok THEN "idle" ELSE f_state
      n == notify(f_listeners, f_viewUnsub)
  IN /\ BagIn(t, f_tasks) /\ t.pc = "awaitGet"
     /\ f_formData' = IF r.ok THEN DraftOf(r.value) ELSE f_formData
     /\ f_state' = state2
     /\ f_errors' = errors2
     /\ f_listeners' = n.ls
     /\ f_viewUnsub' = n.vu
     /\ f_tasks' = Remove(f_tasks, t)
     /\ ev' = FormEvent("editSettled", NoTask, <<n.note>>) @@
              [ok |-> r.ok, value |-> r.value, err |-> r.err, outcome |-> outcome,
               done |-> Done("edit", t.log \o <<Settled(r.ok), Notified(state2, errors2)>>,
                             "void")]
     /\ UNCHANGED <<apiVariant, routerVars, modalVars, listVars, f_isEditMode, f_employeeId, f_lastInit>>

\* An initializeForEdit() that settles without clearing the errors on success.
EditSettleKeepsErrors(t, outcome) ==
  LET r == getEmployee(apiVariant, outcome)
      errors2 == IF r.ok THEN f_errors
                 ELSE [f_errors EXCEPT !.general =
                         ErrorMessage(r.err, "Failed to load employee data. Please try again.")]
      state2 == IF r.ok THEN "idle" ELSE "error"
      n == notify(f_listeners, f_viewUnsub)
  IN /\ BagIn(t, f_tasks) /\ t.pc = "awaitGet"
     /\ f_formData' = IF r.ok THEN DraftOf(r.value) ELSE f_formData
     /\ f_state' = state2
     /\ f_errors' = errors2
     /\ f_listeners' = n.ls
     /\ f_viewUnsub' = n.vu
     /\ f_tasks' = Remove(f_tasks, t)
     /\ ev' = FormEvent("editSettled", NoTask, <<n.note>>) @@
              [ok |-> r.ok, value |-> r.value, err |-> r.err, outcome |-> outcome,
               done |-> Done("edit", t.log \o <<Settled(r.ok), Notified(state2, errors2)>>,
                             "void")]
     /\ UNCHANGED <<apiVariant, routerVars, modalVars, listVars, f_isEditMode, f_employeeId, f_lastInit>>

\* An initializeForEdit() that drops the result of a superseded fetch.
EditSettleUnlessSuperseded(t, outcome) ==
  LET r == getEmployee(apiVariant, outcome)
      current == f_isEditMode /\ f_employeeId = t.log[2].req.target
      errors2 == IF ~current THEN f_errors
                 ELSE IF r.ok THEN NoErrors
                 ELSE [f_errors EXCEPT !.general =
                         ErrorMessage(r.err, "Failed to load employee data. Please try again.")]
      state2 == IF ~current THEN f_state ELSE IF r.ok THEN "idle" ELSE "error"
      n == notify(f_listeners, f_viewUnsub)
  IN /\ BagIn(t, f_tasks) /\ t.pc = "awaitGet"
     /\ f_formData' = IF r.ok /\ current THEN DraftOf(r.value) ELSE f_formData
     /\ f_state' = state2
     /\ f_errors' = errors2
     /\ f_listeners' = n.ls
     /\ f_viewUnsub' = n.vu
     /\ f_tasks' = Remove(f_tasks, t)
     /\ ev' = FormEvent("editSettled", NoTask, <<n.note>>) @@
              [ok |-> r.ok, value |-> r.value, err |-> r.err, outcome |-> outcome,
               done |-> Done("edit", t.log \o <<Settled(r.ok), Notified(state2, errors2)>>,
                             "void")]
     /\ UNCHANGED <<apiVariant, routerVars, modalVars, listVars, f_isEditMode, f_employeeId, f_lastInit>>

\* The getEmployee() of an initializeForEdit() settles: try / catch /
\* finally, then the return.
EditSettle(t, outcome) ==
  LET r == getEmployee(apiVariant, outcome)
      errors2 == IF r.ok THEN NoErrors
                 ELSE [f_errors EXCEPT !.general =
                         ErrorMessage(r.err, "Failed to load employee data. Please try again.")]
      state2 == IF r.ok THEN "idle" ELSE "error"
      n == notify(f_listeners, f_viewUnsub)
  IN /\ BagIn(t, f_tasks) /\ t.pc = "awaitGet"
     /\ f_formData' = IF r.ok THEN DraftOf(r.value) ELSE f_formData
     /\ f_state' = state2
     /\ f_errors' = errors2
     /\ f_listeners' = n.ls
     /\ f_viewUnsub' = n.vu
     /\ f_tasks' = Remove(f_tasks, t)
     /\ ev' = FormEvent("editSettled", NoTask, <<n.note>>) @@
              [ok |-> r.ok, value |-> r.value, err |-> r.err, outcome |-> outcome,
               done |-> Done("edit", t.log \o <<Settled(r.ok), Notified(state2, errors2)>>,
                             "void")]
     /\ UNCHANGED <<apiVariant, routerVars, modalVars, listVars, f_isEditMode, f_employeeId, f_lastInit>>

\* An updateField() that clears every error.
UpdateFieldClearsAllErrors(field, value) ==
  LET n == notify(f_listeners, f_viewUnsub)
  IN /\ f_formData' = [f_formData EXCEPT ![field] = value]
     /\ f_errors' = NoErrors
     /\ f_listeners' = n.ls
     /\ f_viewUnsub' = n.vu
     /\ ev' = FormEvent("updateField", NoTask, <<n.note>>) @@ [field |-> field, value |-> value]
     /\ UNCHANGED <<apiVariant, routerVars, modalVars, listVars, f_state, f_isEditMode, f_employeeId, f_tasks, f_lastInit>>

\* updateField(field, value)
UpdateField(field, value) ==
  LET n == notify(f_listeners, f_viewUnsub)
  IN /\ f_formData' = [f_formData EXCEPT ![field] = value]
     /\ f_errors' = IF field \in DOMAIN f_errors /\ f_errors[field] \notin {Absent, ""}
                    THEN [f_errors EXCEPT ![field] = Absent]
                    ELSE f_errors
     /\ f_listeners' = n.ls
     /\ f_viewUnsub' = n.vu
     /\ ev' = FormEvent("updateField", NoTask, <<n.note>>) @@ [field |-> field, value |-> value]
     /\ UNCHANGED <<apiVariant, routerVars, modalVars, listVars, f_state, f_isEditMode, f_employeeId, f_tasks, f_lastInit>>

\* A validate() that stops at the first field that fails.
ValidationErrorsFirstOnly(formData) ==
  IF ~validateFirstName(formData.firstName).isValid
  THEN [NoErrors EXCEPT !.firstName = validateFirstName(formData.firstName).error]
  ELSE IF ~validateLastName(formData.lastName).isValid
  THEN [NoErrors EXCEPT !.lastName = validateLastName(formData.lastName).error]
  ELSE IF ~validateSSN(formData.ssn).isValid
  THEN [NoErrors EXCEPT !.ssn = validateSSN(formData.ssn).error]
  ELSE [NoErrors EXCEPT !.employeeNo = validateEmployeeNo(formData.employeeNo).error]

\* A validate() that leaves the employee number out.
ValidationErrorsSkipsEmployeeNo(formData) ==
  [firstName |-> validateFirstName(formData.firstName).error,
   lastName |-> validateLastName(formData.lastName).error,
   ssn |-> validateSSN(formData.ssn).error,
   employeeNo |-> Absent,
   general |-> Absent]

\* The _errors validate() builds for a draft.
ValidationErrors(formData) ==
  [firstName |-> validateFirstName(formData.firstName).error,
   lastName |-> validateLastName(formData.lastName).error,
   ssn |-> validateSSN(formData.ssn).error,
   employeeNo |-> validateEmployeeNo(formData.employeeNo).error,
   general |-> Absent]

\* Object.keys(this._errors).length === 0
NoKeys(errors) == \A k \in DOMAIN errors : errors[k] = Absent

\* validate() called from outside.
Validate ==
  LET errors2 == ValidationErrors(f_formData)
      n == notify(f_listeners, f_viewUnsub)
  IN /\ f_errors' = errors2
     /\ f_listeners' = n.ls
     /\ f_viewUnsub' = n.vu
     /\ ev' = FormEvent("validate", NoTask, <<n.note>>) @@ [ret |-> NoKeys(errors2)]
     /\ UNCHANGED <<apiVariant, routerVars, modalVars, listVars, f_formData, f_state, f_isEditMode, f_employeeId,
                    f_tasks, f_lastInit>>

\* The employeeData submit() hands to the API client.
EmployeeData(formData) ==
  [id |-> Undefined,
   firstName |-> trim(formData.firstName),
   lastName |-> trim(formData.lastName),
   ssn |-> trim(formData.ssn),
   employeeNo |-> trim(formData.employeeNo),
   active |-> formData.active]

\* A submit() that creates whatever the mode.
SubmitRequestAlwaysCreates(isEditMode, employeeId, formData) ==
  RequestCreate(EmployeeData(formData))

\* The write submit() issues.
SubmitRequest(isEditMode, employeeId, formData) ==
  IF isEditMode /\ ~Falsy(employeeId)
  THEN RequestUpdate(employeeId, EmployeeData(formData))
  ELSE RequestCreate(EmployeeData(formData))

\* submit(), up to its return (the draft is invalid) or to its await (the
\* write request is issued).
Submit ==
  LET errors2 == ValidationErrors(f_formData)
      n1 == notify(f_listeners, f_viewUnsub)
      n2 == notify(n1.ls, n1.vu)
      req == SubmitRequest(f_isEditMode, f_employeeId, f_formData)
      call == [op |-> "submit", pc |-> "awaitWrite",
               log |-> <<NotifiedByValidate, Notified("loading", NoErrors), Requested(req)>>]
  IN IF ~NoKeys(errors2)
     THEN /\ f_errors' = errors2
          /\ f_listeners' = n1.ls
          /\ f_viewUnsub' = n1.vu
          /\ ev' = FormEvent("submitInvalid", NoTask, <<n1.note>>) @@
                   [stateBefore |-> f_state, requests |-> <<>>,
                    done |-> Done("submit", <<NotifiedByValidate>>, "false")]
          /\ UNCHANGED <<apiVariant, routerVars, modalVars, listVars, f_formData, f_state, f_isEditMode, f_employeeId,
                         f_tasks, f_lastInit>>
     ELSE /\ HasRoom(f_tasks, MaxFormTasks)
          /\ f_state' = "loading"
          /\ f_errors' = NoErrors
          /\ f_listeners' = n2.ls
          /\ f_viewUnsub' = n2.vu
          /\ f_tasks' = Add(f_tasks, call)
          /\ ev' = FormEvent("submit", call, <<n1.note, n2.note>>) @@
                   [stateBefore |-> f_state, requests |-> <<req>>]
          /\ UNCHANGED <<apiVariant, routerVars, modalVars, listVars, f_formData, f_isEditMode, f_employeeId, f_lastInit>>

\* A submit() that settles without its last notify().
SubmitSettleSilent(t, outcome) ==
  LET r == IF t.log[3].req.method = "PUT"
           THEN updateEmployee(apiVariant, outcome)
           ELSE createEmployee(apiVariant, outcome)
      errors2 == IF r.ok THEN NoErrors
                 ELSE [f_errors EXCEPT !.general =
                         ErrorMessage(r.err, "Failed to save employee. Please try again.")]
      state2 == IF r.ok THEN "success" ELSE "error"
  IN /\ BagIn(t, f_tasks) /\ t.pc = "awaitWrite"
     /\ f_state' = state2
     /\ f_errors' = errors2
     /\ f_tasks' = Remove(f_tasks, t)
     /\ ev' = FormEvent("submitSettled", NoTask, <<>>) @@
              [ok |-> r.ok, err |-> r.err,
               done |-> Done("submit", t.log \o <<Settled(r.ok)>>,
                             IF r.ok THEN "true" ELSE "false")]
     /\ UNCHANGED <<apiVariant, routerVars, modalVars, listVars, f_formData, f_isEditMode, f_employeeId, f_lastInit,
                    f_listeners, f_viewUnsub>>

\* The write of a submit() settles: the rest of try, or catch, then the return.
SubmitSettle(t, outcome) ==
  LET r == IF t.log[3].req.method = "PUT"
           THEN updateEmployee(apiVariant, outcome)
           ELSE createEmployee(apiVariant, outcome)
      errors2 == IF r.ok THEN NoErrors
                 ELSE [f_errors EXCEPT !.general =
                         ErrorMessage(r.err, "Failed to save employee. Please try again.")]
      state2 == IF r.ok THEN "success" ELSE "error"
      n == notify(f_listeners, f_viewUnsub)
  IN /\ BagIn(t, f_tasks) /\ t.pc = "awaitWrite"
     /\ f_state' = state2
     /\ f_errors' = errors2
     /\ f_listeners' = n.ls
     /\ f_viewUnsub' = n.vu
     /\ f_tasks' = Remove(f_tasks, t)
     /\ ev' = FormEvent("submitSettled", NoTask, <<n.note>>) @@
              [ok |-> r.ok, err |-> r.err,
               done |-> Done("submit", t.log \o <<Settled(r.ok), Notified(state2, errors2)>>,
                             IF r.ok THEN "true" ELSE "false")]
     /\ UNCHANGED <<apiVariant, routerVars, modalVars, listVars, f_formData, f_isEditMode, f_employeeId, f_lastInit>>

\* clearErrors()
ClearErrors ==
  LET n == notify(f_listeners, f_viewUnsub)
  IN /\ f_errors' = NoErrors
     /\ f_listeners' = n.ls
     /\ f_viewUnsub' = n.vu
     /\ ev' = FormEvent("clearErrors", NoTask, <<n.note>>)
     /\ UNCHANGED <<apiVariant, routerVars, modalVars, listVars, f_formData, f_state, f_isEditMode, f_employeeId,
                    f_tasks, f_lastInit>>

\* EmployeeFormView.render() called from outside (showAddEmployeeForm,
\* showEditEmployeeForm).
FormViewRender ==
  LET r == subscribeToViewModel(f_listeners, f_viewUnsub)
  IN /\ Len(f_listeners) < MaxListeners \/ f_viewUnsub \in Range(f_listeners)
     /\ f_listeners' = r.ls
     /\ f_viewUnsub' = r.vu
     /\ ev' = FormEvent("render", NoTask, <<>>)
     /\ UNCHANGED <<apiVariant, routerVars, modalVars, listVars, f_formData, f_errors, f_state, f_isEditMode,
                    f_employeeId, f_tasks, f_lastInit>>

\* EmployeeFormView.destroy()
FormViewDestroy ==
  /\ f_viewUnsub # NoCb
  /\ f_listeners' = unsubscribe(f_listeners, f_viewUnsub)
  /\ ev' = FormEvent("destroy", NoTask, <<>>)
  /\ UNCHANGED <<apiVariant, routerVars, modalVars, listVars, f_formData, f_errors, f_state, f_isEditMode,
                 f_employeeId, f_viewUnsub, f_tasks, f_lastInit>>

(***************************************************************************)
(* Router.  Paths and fragments are sequences of one-character strings.    *)
(* A handler is identified by its function object.  Patterns are not empty.*)
(***************************************************************************)
Slash == "/"
Colon == ":"
PathRoot == <<"/">>
PathAdd == <<"/", "a", "d", "d">>
PathId == <<"/", ":", "i", "d">>
PathEditId == <<"/", "e", "d", "i", "t", "/", ":", "i", "d">>
Patterns == {PathRoot, PathAdd, PathId, PathEditId}
Handlers == {"h1", "h2"}

NoFragment == <<>>
FragmentAdd == <<"a", "d", "d">>
FragmentEdit42 == <<"e", "d", "i", "t", "/", "4", "2">>
FragmentDeep == <<"a", "/", "b", "/", "c">>
Fragments == {NoFragment, PathAdd, FragmentAdd, FragmentEdit42, PathEditId, FragmentDeep}

\* String.prototype.split('/')
RECURSIVE split(_)
split(s) ==
  IF \E i \in 1..Len(s) : s[i] = Slash
  THEN LET i == CHOOSE j \in 1..Len(s) : s[j] = Slash /\ \A m \in 1..(j - 1) : s[m] # Slash
       IN <<SubSeq(s, 1, i - 1)>> \o split(SubSeq(s, i + 1, Len(s)))
  ELSE <<s>>

\* .split('/').filter(part => part !== '')
Parts(s) == SelectSeq(split(s), LAMBDA part : part # <<>>)

\* params: the set of <<name, value>> pairs of the object; an assignment to a
\* name replaces its pair.
NoParams == {}
Bind(params, name, value) == {b \in params : b[1] # name} \cup {<<name, value>>}

Match(params) == [matched |-> TRUE, params |-> params]
NoMatch == [matched |-> FALSE, params |-> NoParams]

\* The for loop of matchRoute, from index i on.
RECURSIVE MatchParts(_, _, _, _)
MatchParts(patternParts, pathParts, i, params) ==
  IF i > Len(patternParts) THEN Match(params)
  ELSE IF patternParts[i] = <<>> \/ pathParts[i] = <<>> THEN NoMatch
  ELSE IF Head(patternParts[i]) = Colon
  THEN MatchParts(patternParts, pathParts, i + 1,
                  Bind(params, Tail(patternParts[i]), pathParts[i]))
  ELSE IF patternParts[i] # pathParts[i] THEN NoMatch
  ELSE MatchParts(patternParts, pathParts, i + 1, params)

\* matchRoute(pattern, path): null is NoMatch.
matchRoute(pattern, path) ==
  IF Len(Parts(pattern)) # Len(Parts(path)) THEN NoMatch
  ELSE MatchParts(Parts(pattern), Parts(path), 1, NoParams)

\* A call of a handler: handler() or handler(params).
NoArgument == [given |-> FALSE, params |-> NoParams]
Argument(params) == [given |-> TRUE, params |-> params]
Call(route, arg) == [path |-> route.path, handler |-> route.handler, arg |-> arg]

\* Map.prototype.has / the index of the entry of a key (0 when there is none).
Has(routes, path) == \E i \in 1..Len(routes) : routes[i].path = path
EntryOf(routes, path) ==
  IF Has(routes, path) THEN CHOOSE i \in 1..Len(routes) : routes[i].path = path ELSE 0

\* Map.prototype.set: a new key is appended, an old key keeps its place.
on(routes, path, handler) ==
  IF Has(routes, path)
  THEN [routes EXCEPT ![EntryOf(routes, path)].handler = handler]
  ELSE Append(routes, [path |-> path, handler |-> handler])

\* window.location.hash.slice(1) || '/'
HashOf(fragment) == IF fragment = <<>> THEN <<Slash>> ELSE fragment

\* A handleRoute() that tries no exact match before the patterns.
handleRoutePatternsOnly(routes, fragment) ==
  LET hash == HashOf(fragment)
      matching == {i \in 1..Len(routes) : matchRoute(routes[i].path, hash).matched}
      first == CHOOSE i \in matching : \A j \in matching : i <= j
  IN [hash |-> hash,
      calls |->
        IF matching # {}
        THEN <<Call(routes[first], Argument(matchRoute(routes[first].path, hash).params))>>
        ELSE IF Has(routes, PathRoot)
        THEN <<Call(routes[EntryOf(routes, PathRoot)], NoArgument)>>
        ELSE <<>>]

\* A handleRoute() whose pattern loop does not return after its call.
handleRouteFallsThrough(routes, fragment) ==
  LET hash == HashOf(fragment)
      matching == {i \in 1..Len(routes) : matchRoute(routes[i].path, hash).matched}
      first == CHOOSE i \in matching : \A j \in matching : i <= j
      fallback == IF Has(routes, PathRoot)
                  THEN <<Call(routes[EntryOf(routes, PathRoot)], NoArgument)>>
                  ELSE <<>>
  IN [hash |-> hash,
      calls |->
        IF Has(routes, hash)
        THEN <<Call(routes[EntryOf(routes, hash)], NoArgument)>>
        ELSE IF matching # {}
        THEN <<Call(routes[first], Argument(matchRoute(routes[first].path, hash).params))>>
               \o fallback
        ELSE fallback]

\* handleRoute(): the hash it resolves and the handler calls it makes.
handleRoute(routes, fragment) ==
  LET hash == HashOf(fragment)
      matching == {i \in 1..Len(routes) : matchRoute(routes[i].path, hash).matched}
      first == CHOOSE i \in matching : \A j \in matching : i <= j
  IN [hash |-> hash,
      calls |->
        IF Has(routes, hash)
        THEN <<Call(routes[EntryOf(routes, hash)], NoArgument)>>
        ELSE IF matching # {}
        THEN <<Call(routes[first], Argument(matchRoute(routes[first].path, hash).params))>>
        ELSE IF Has(routes, PathRoot)
        THEN <<Call(routes[EntryOf(routes, PathRoot)], NoArgument)>>
        ELSE <<>>]

RouterEvent(op) == [op |-> op, task |-> NoTask, notes |-> <<>>]

\* router.on(path, handler)
On(path, handler) ==
  /\ r_routes' = on(r_routes, path, handler)
  /\ ev' = RouterEvent("on") @@ [path |-> path, handler |-> handler]
  /\ UNCHANGED <<apiVariant, listVars, formVars, modalVars, r_currentRoute, r_fragment, r_events>>

\* router.navigate(path), and every other change of the fragment (a link,
\* back / forward): the browser dispatches hashchange when the fragment
\* changes; the listener runs in a later turn.
Navigate(path) ==
  /\ r_events < MaxEvents
  /\ r_fragment' = path
  /\ r_events' = IF path # r_fragment THEN r_events + 1 ELSE r_events
  /\ ev' = RouterEvent("navigate") @@ [path |-> path]
  /\ UNCHANGED <<apiVariant, listVars, formVars, modalVars, r_routes, r_currentRoute>>

\* The hashchange listener: handleRoute() on the fragment as it is now.
HashChange ==
  LET r == handleRoute(r_routes, r_fragment)
  IN /\ r_events > 0
     /\ r_events' = r_events - 1
     /\ r_currentRoute' = r.hash
     /\ ev' = RouterEvent("handleRoute") @@
              [fragment |-> r_fragment, hash |-> r.hash, calls |-> r.calls]
     /\ UNCHANGED <<apiVariant, listVars, formVars, modalVars, r_routes, r_fragment>>

(***************************************************************************)
(* The application (main.ts).  The router singleton is constructed when    *)
(* its module is imported, before main.ts runs; only views subscribe to    *)
(* the containers, and currentView is the one view that is subscribed.     *)
(***************************************************************************)
ParamName == <<"i", "d">>
PathEdit42 == <<Slash>> \o FragmentEdit42
AppPaths == {PathRoot, PathAdd, PathEdit42, PathEditId}

\* params.id: <<>> when params or its id is missing.
ParamId(arg) ==
  IF arg.given /\ (\E b \in arg.params : b[1] = ParamName)
  THEN (CHOOSE b \in arg.params : b[1] = ParamName)[2]
  ELSE <<>>

\* cleanupView(): currentView.destroy() takes the view's closure out of its
\* container's listeners.
\* (CleanedListListenersKept: a cleanupView() that forgets the list view.)
CleanedListListenersKept == l_listeners
CleanedListListeners ==
  IF l_viewUnsub # NoCb THEN unsubscribe(l_listeners, l_viewUnsub) ELSE l_listeners
CleanedFormListeners ==
  IF f_viewUnsub # NoCb THEN unsubscribe(f_listeners, f_viewUnsub) ELSE f_listeners

AppEvent(op, t, notes, r) ==
  [op |-> op, task |-> t, notes |-> notes, fragment |-> r_fragment, hash |-> r.hash,
   calls |-> r.calls]

\* init() without initializeApiKey(): initializeRouter() registers the three
\* routes; nothing else is called.
Bootstrap ==
  /\ r_routes = <<>>
  /\ r_routes' = on(on(on(r_routes, PathRoot, "showEmployeeList"),
                       PathAdd, "showAddEmployeeForm"),
                    PathEditId, "showEditEmployeeForm")
  /\ ev' = RouterEvent("bootstrap") @@ [fragment |-> r_fragment, calls |-> <<>>]
  /\ UNCHANGED <<apiVariant, listVars, formVars, modalVars, r_currentRoute, r_fragment, r_events>>

\* showEmployeeList(): cleanupView(), a new list view rendered, the first
\* turn of loadEmployees().
showEmployeeList(r) ==
  LET v == subscribeToViewModel(CleanedListListeners, NoCb)
      n == notify(v.ls, v.vu)
      call == [op |-> "load", pc |-> "awaitFetch", overlapped |-> BagCardinality(l_tasks),
               log |-> <<Notified("loading", Null), Requested(RequestGetAll)>>]
  IN /\ HasRoom(l_tasks, MaxTasks)
     /\ f_listeners' = CleanedFormListeners
     /\ f_viewUnsub' = NoCb
     /\ l_state' = "loading"
     /\ l_error' = Null
     /\ l_listeners' = n.ls
     /\ l_viewUnsub' = n.vu
     /\ l_tasks' = Add(l_tasks, call)
     /\ ev' = AppEvent("route", call, <<n.note>>, r)
     /\ UNCHANGED <<l_employees, l_handles, f_formData, f_errors, f_state, f_isEditMode,
                    f_employeeId, f_tasks, f_lastInit, r_fragment>>

\* showAddEmployeeForm(): cleanupView(), initializeForAdd(), a new form view
\* rendered.
showAddEmployeeForm(r) ==
  LET n == notify(CleanedFormListeners, NoCb)
      v == subscribeToViewModel(n.ls, NoCb)
  IN /\ l_listeners' = CleanedListListeners
     /\ l_viewUnsub' = NoCb
     /\ f_isEditMode' = FALSE
     /\ f_employeeId' = NullId
     /\ f_formData' = EmptyFormData
     /\ f_errors' = NoErrors
     /\ f_state' = "idle"
     /\ f_listeners' = v.ls
     /\ f_viewUnsub' = v.vu
     /\ f_lastInit' = [mode |-> "add", id |-> NullId]
     /\ ev' = AppEvent("route", NoTask, <<n.note>>, r)
     /\ UNCHANGED <<l_employees, l_state, l_error, l_handles, l_tasks, f_tasks, r_fragment>>

\* showEditEmployeeForm(params): without an id router.navigate('/');
\* otherwise cleanupView(), a new form view rendered, the first turn of
\* initializeForEdit(params.id).
showEditEmployeeForm(r, arg) ==
  IF ParamId(arg) = <<>>
  THEN /\ r_fragment' = PathRoot
       /\ ev' = AppEvent("route", NoTask, <<>>, r)
       /\ UNCHANGED <<listVars, formVars>>
  ELSE LET v == subscribeToViewModel(CleanedFormListeners, NoCb)
           n == notify(v.ls, v.vu)
           call == [op |-> "edit", pc |-> "awaitGet",
                    log |-> <<Notified("loading", NoErrors),
                              Requested(RequestGet(ParamId(arg)))>>]
       IN /\ HasRoom(f_tasks, MaxFormTasks)
          /\ l_listeners' = CleanedListListeners
          /\ l_viewUnsub' = NoCb
          /\ f_isEditMode' = TRUE
          /\ f_employeeId' = ParamId(arg)
          /\ f_state' = "loading"
          /\ f_errors' = NoErrors
          /\ f_listeners' = n.ls
          /\ f_viewUnsub' = n.vu
          /\ f_tasks' = Add(f_tasks, call)
          /\ f_lastInit' = [mode |-> "edit", id |-> ParamId(arg)]
          /\ ev' = AppEvent("route", call, <<n.note>>, r)
          /\ UNCHANGED <<l_employees, l_state, l_error, l_handles, l_tasks, f_formData,
                         r_fragment>>

\* The hashchange listener of the application: handleRoute() and the handler
\* it calls; a navigate() of the handler queues the next hashchange.
AppHashChange ==
  LET r == handleRoute(r_routes, r_fragment)
  IN /\ r_events > 0
     /\ r_currentRoute' = r.hash
     /\ IF r.calls = <<>>
        THEN /\ ev' = AppEvent("route", NoTask, <<>>, r)
             /\ UNCHANGED <<listVars, formVars, r_fragment>>
        ELSE CASE r.calls[1].handler = "showEmployeeList" -> showEmployeeList(r)
               [] r.calls[1].handler = "showAddEmployeeForm" -> showAddEmployeeForm(r)
               [] r.calls[1].handler = "showEditEmployeeForm" ->
                    showEditEmployeeForm(r, r.calls[1].arg)
     /\ r_events' = IF r_fragment' # r_fragment THEN r_events ELSE r_events - 1
     /\ UNCHANGED <<apiVariant, modalVars, r_routes>>

\* The form view is the current view, so its inputs and its form exist.
FormViewShown == f_viewUnsub # NoCb /\ f_viewUnsub \in Range(f_listeners)

\* The submit listener of the form view, first turn: viewModel.submit().
FormSubmit == FormViewShown /\ Submit

\* An input listener of the form view.
FormInput(field, value) == FormViewShown /\ UpdateField(field, value)

\* The write of a submit() settles and the submit listener of the form view
\* resumes: on success router.navigate('/'), whatever view is current by
\* then.
FormSubmitSettle(t, outcome) ==
  LET r == IF t.log[3].req.method = "PUT"
           THEN updateEmployee(apiVariant, outcome)
           ELSE createEmployee(apiVariant, outcome)
      errors2 == IF r.ok THEN NoErrors
                 ELSE [f_errors EXCEPT !.general =
                         ErrorMessage(r.err, "Failed to save employee. Please try again.")]
      state2 == IF r.ok THEN "success" ELSE "error"
      n == notify(f_listeners, f_viewUnsub)
  IN /\ BagIn(t, f_tasks) /\ t.pc = "awaitWrite"
     /\ IF r.ok THEN r_events < MaxEvents ELSE TRUE
     /\ f_state' = state2
     /\ f_errors' = errors2
     /\ f_listeners' = n.ls
     /\ f_viewUnsub' = n.vu
     /\ f_tasks' = Remove(f_tasks, t)
     /\ r_fragment' = IF r.ok THEN PathRoot ELSE r_fragment
     /\ r_events' = IF r.ok /\ r_fragment # PathRoot THEN r_events + 1 ELSE r_events
     /\ ev' = FormEvent("submitSettled", NoTask, <<n.note>>) @@
              [ok |-> r.ok, err |-> r.err, fragment |-> r_fragment,
               done |-> Done("submit", t.log \o <<Settled(r.ok), Notified(state2, errors2)>>,
                             IF r.ok THEN "true" ELSE "false")]
     /\ UNCHANGED <<apiVariant, modalVars, listVars, f_formData, f_isEditMode, f_employeeId,
                    f_lastInit, r_routes, r_currentRoute>>

(***************************************************************************)
(* The delete confirmation (EmployeeListView.attachEventListeners and      *)
(* ModalService.showConfirmation).  window.bootstrap is loaded.  An open   *)
(* modal holds the id its onConfirm closes over and its wasConfirmed flag. *)
(***************************************************************************)
Modal(id, wasConfirmed) == [id |-> id, wasConfirmed |-> wasConfirmed]

\* The rows of the rendered table: the view has rendered the state as it
\* is, and only the last template of getTemplate() has rows.
RenderedIds ==
  IF l_viewUnsub \in Range(l_listeners) /\ l_state = "loaded"
  THEN {l_employees[i].id : i \in 1..Len(l_employees)} \ {Undefined, Empty}
  ELSE {}

\* A click on the delete icon of a row: showDeleteConfirmation() opens a
\* modal.
DeleteClick(id) ==
  /\ id \in RenderedIds
  /\ HasRoom(m_modals, MaxModals)
  /\ m_modals' = Add(m_modals, Modal(id, FALSE))
  /\ ev' = ListEvent("deleteClick", NoTask, <<>>) @@ [modal |-> Modal(id, FALSE)]
  /\ UNCHANGED <<apiVariant, routerVars, listVars, formVars>>

\* A click on the confirm button: wasConfirmed is set and onConfirm() runs
\* up to the await of deleteEmployee(id), whose first turn issues the
\* DELETE request.
ModalConfirm(m) ==
  LET call == [op |-> "delete", pc |-> "awaitDelete", log |-> <<Requested(RequestDelete(m.id))>>]
  IN /\ BagIn(m, m_modals)
     /\ HasRoom(l_tasks, MaxTasks)
     /\ m_modals' = Add(Remove(m_modals, m), Modal(m.id, TRUE))
     /\ l_tasks' = Add(l_tasks, call)
     /\ ev' = ListEvent("modalConfirm", call, <<>>) @@ [modal |-> m]
     /\ UNCHANGED <<apiVariant, routerVars, l_employees, l_state, l_error, l_listeners,
                    l_viewUnsub, l_handles, formVars>>

\* A modal that takes its dismissal for a confirmation.
ModalHiddenConfirms(m) ==
  LET call == [op |-> "delete", pc |-> "awaitDelete", log |-> <<Requested(RequestDelete(m.id))>>]
  IN /\ BagIn(m, m_modals)
     /\ HasRoom(l_tasks, MaxTasks)
     /\ m_modals' = Remove(m_modals, m)
     /\ l_tasks' = IF m.wasConfirmed THEN l_tasks ELSE Add(l_tasks, call)
     /\ ev' = ListEvent("modalHidden", NoTask, <<>>) @@ [modal |-> m]
     /\ UNCHANGED <<apiVariant, routerVars, l_employees, l_state, l_error, l_listeners,
                    l_viewUnsub, l_handles, formVars>>

\* hidden.bs.modal: the modal was dismissed or cancelled, or hide() has run
\* after onConfirm() returned.  The element is removed; unless the modal
\* was confirmed the promise rejects and the caller's catch swallows it.
ModalHidden(m) ==
  /\ BagIn(m, m_modals)
  /\ m_modals' = Remove(m_modals, m)
  /\ ev' = ListEvent("modalHidden", NoTask, <<>>) @@ [modal |-> m]
  /\ UNCHANGED <<apiVariant, routerVars, listVars, formVars>>

Init ==
  /\ apiVariant \in {"plain", "clone"}
  /\ l_employees = <<>>
  /\ l_state = "loading"
  /\ l_error = Null
  /\ l_listeners = <<>>
  /\ l_viewUnsub = NoCb
  /\ l_handles = <<>>
  /\ l_tasks = EmptyBag
  /\ f_formData = EmptyFormData
  /\ f_errors = NoErrors
  /\ f_state = "idle"
  /\ f_isEditMode = FALSE
  /\ f_employeeId = NullId
  /\ f_listeners = <<>>
  /\ f_viewUnsub = NoCb
  /\ f_tasks = EmptyBag
  /\ f_lastInit = [mode |-> "none", id |-> NullId]
  /\ r_routes = <<>>
  /\ r_fragment = NoFragment
  /\ r_currentRoute = HashOf(NoFragment)
  /\ r_events = 0
  /\ m_modals = EmptyBag
  /\ ev = [op |-> "init", task |-> 0, notes |-> <<>>]

\* The list container and its view.
Next ==
  \/ LoadEmployees
  \/ \E t \in Pending(l_tasks) : \E o \in GetAllOutcomes : LoadSettle(t, o)
  \/ \E id \in Ids : DeleteEmployee(id)
  \/ \E t \in Pending(l_tasks) : \E o \in DeleteOutcomes : DeleteSettle(t, o)
  \/ ClearError
  \/ ListViewRender
  \/ ListViewDestroy

Spec == Init /\ [][Next]_vars

\* The list container when every request eventually settles: a pending
\* fetch-all and a pending remove are each answered at some time.
LoadSettles == \E t \in Pending(l_tasks) : \E o \in GetAllOutcomes : LoadSettle(t, o)
DeleteSettles == \E t \in Pending(l_tasks) : \E o \in DeleteOutcomes : DeleteSettle(t, o)

SpecLive == Init /\ [][Next]_vars /\ WF_vars(LoadSettles) /\ WF_vars(DeleteSettles)

\* The subscription mechanism: the list container with its view and other
\* subscribers, the remote service answering each request in one of two ways.
SubGetAllOutcomes == {NetworkFailure, Response(200, TRUE, BodyArr(<<Wire1>>))}
SubDeleteOutcomes == {NetworkFailure, Response(200, FALSE, BodyEmpty)}

NextSub ==
  \/ LoadEmployees
  \/ \E t \in Pending(l_tasks) : \E o \in SubGetAllOutcomes : LoadSettle(t, o)
  \/ DeleteEmployee(Id1)
  \/ \E t \in Pending(l_tasks) : \E o \in SubDeleteOutcomes : DeleteSettle(t, o)
  \/ ClearError
  \/ \E f \in PlainFns : ListSubscribe(f)
  \/ \E h \in 1..MaxHandles : ListUnsubscribe(h)
  \/ ListViewRender
  \/ ListViewDestroy

SpecSub == Init /\ [][NextSub]_vars

\* The form container and its view.
NextForm ==
  \/ InitializeForAdd
  \/ \E id \in Ids : InitializeForEdit(id)
  \/ \E t \in Pending(f_tasks) : \E o \in GetOutcomes : EditSettle(t, o)
  \/ \E field \in Fields : \E value \in FieldValues(field) : UpdateField(field, value)
  \/ Validate
  \/ Submit
  \/ \E t \in Pending(f_tasks) : \E o \in WriteOutcomes : SubmitSettle(t, o)
  \/ ClearErrors
  \/ FormViewRender
  \/ FormViewDestroy

SpecForm == Init /\ [][NextForm]_vars

\* Editing a new employee's draft: every field of the form, the active
\* checkbox included.
DraftFields == Fields \cup {"active"}
SsnUngrouped == <<"1", "2", "3", "4", "5", "6", "7", "8", "9">>
DraftValues(field) ==
  CASE field = "active" -> {FALSE, TRUE}
    [] field = "ssn" -> FieldValues(field) \cup {SsnUngrouped}
    [] OTHER -> FieldValues(field)

NextDraft ==
  \/ InitializeForAdd
  \/ \E field \in DraftFields : \E value \in DraftValues(field) : UpdateField(field, value)
  \/ Validate
  \/ Submit
  \/ \E t \in Pending(f_tasks) : \E o \in WriteOutcomes : SubmitSettle(t, o)
  \/ ClearErrors
  \/ FormViewRender
  \/ FormViewDestroy

SpecDraft == Init /\ [][NextDraft]_vars

\* The SSN field: what may be put into it, and its validation.
SsnPadded == <<" ">> \o SsnGood \o <<"\n">>
SsnBlank == <<" ">>
SsnWrongGrouping == <<"1", "2", "-", "3", "4", "5", "-", "6", "7", "8", "9">>
SsnExtra == SsnGood \o <<"0">>
SsnLetters == <<"a", "b", "c", "-", "d", "e", "-", "f", "g", "h", "i">>
SsnInputs == {Empty, SsnBlank, SsnGood, SsnUngrouped, SsnPadded, SsnWrongGrouping,
              SsnExtra, SsnLetters}

NextSsn ==
  \/ \E value \in SsnInputs : UpdateField("ssn", value)
  \/ Validate
  \/ ClearErrors
  \/ InitializeForAdd

SpecSsn == Init /\ [][NextSsn]_vars

\* The name fields: what may be put into them, and their validation.
Repeat(c, n) == [i \in 1..n |-> c]
NameOfMaxLength == Repeat("a", MaxNameLength)
NameTooLong == Repeat("a", MaxNameLength + 1)
NameOfMaxLengthPadded == <<" ">> \o NameOfMaxLength \o <<"\t">>
NameAPadded == <<" ", "A", " ">>
NameWithTab == <<"A", "\t", "l">>
NameHyphenApostrophe == <<"O", "'", "N", "-", "S", " ", "x">>
NameWithDigit == <<"L", "1">>
NameInputs == {Empty, Undefined, SsnBlank, NameA, NameAPadded, NameAl, NamePadded,
               NameOfMaxLength, NameTooLong, NameOfMaxLengthPadded, NameWithTab,
               NameHyphenApostrophe, NameWithDigit}

NextNames ==
  \/ \E value \in NameInputs : UpdateField("firstName", value)
  \/ \E value \in NameInputs : UpdateField("lastName", value)
  \/ Validate
  \/ ClearErrors

SpecNames == Init /\ [][NextNames]_vars

\* value.replace(/\D/g, '')
digitsOf(value) == SelectSeq(value, LAMBDA c : c \in Digits)

\* String.prototype.slice(begin, end) for 0 <= begin <= end: the characters at
\* the 0-based indices begin .. end - 1 that exist.
slice(s, begin, end) == SubSeq(s, begin + 1, IF end < Len(s) THEN end ELSE Len(s))

\* A formatSSN that formats the value as typed, without removing its
\* non-digits.
formatSSNKeepsSeparators(value) ==
  IF Len(value) <= 3 THEN value
  ELSE IF Len(value) <= 5
  THEN slice(value, 0, 3) \o <<"-">> \o slice(value, 3, Len(value))
  ELSE slice(value, 0, 3) \o <<"-">> \o slice(value, 3, 5) \o <<"-">> \o slice(value, 5, 9)

\* A formatSSN whose last group is not cut after the ninth digit.
formatSSNUntruncated(value) ==
  LET digits == digitsOf(value)
  IN IF Len(digits) <= 3 THEN digits
     ELSE IF Len(digits) <= 5
     THEN slice(digits, 0, 3) \o <<"-">> \o slice(digits, 3, Len(digits))
     ELSE slice(digits, 0, 3) \o <<"-">> \o slice(digits, 3, 5) \o <<"-">>
            \o slice(digits, 5, Len(digits))

formatSSN(value) ==
  LET digits == digitsOf(value)
  IN IF Len(digits) <= 3 THEN digits
     ELSE IF Len(digits) <= 5
     THEN slice(digits, 0, 3) \o <<"-">> \o slice(digits, 3, Len(digits))
     ELSE slice(digits, 0, 3) \o <<"-">> \o slice(digits, 3, 5) \o <<"-">>
            \o slice(digits, 5, 9)

\* The input handler of the ssn field: the typed value is formatted, then
\* handed to updateField().
SsnInput(raw) ==
  LET formatted == formatSSN(raw)
      n == notify(f_listeners, f_viewUnsub)
  IN /\ f_formData' = [f_formData EXCEPT !.ssn = formatted]
     /\ f_errors' = IF f_errors.ssn \notin {Absent, ""}
                    THEN [f_errors EXCEPT !.ssn = Absent]
                    ELSE f_errors
     /\ f_listeners' = n.ls
     /\ f_viewUnsub' = n.vu
     /\ ev' = FormEvent("ssnInput", NoTask, <<n.note>>) @@
              [field |-> "ssn", value |-> formatted, raw |-> raw]
     /\ UNCHANGED <<apiVariant, routerVars, modalVars, listVars, f_state, f_isEditMode, f_employeeId,
                    f_tasks, f_lastInit>>

\* What may be typed or pasted into the ssn field.
Raw10Digits == <<"1", "2", "3", "4", "5", "6", "7", "8", "9", "0">>
Raw2Digits == <<"1", "2">>
Raw3Digits == <<"1", "2", "3">>
Raw4Digits == <<"1", "2", "3", "4">>
Raw5Digits == <<"1", "2", "3", "4", "5">>
Raw6Digits == <<"1", "2", "3", "4", "5", "6">>
RawMixed == <<"a", "1", "-", "-", "2", " ", "3", "x", "4", "5", "6", "7", "_", "8", "9">>
RawLetters == <<"a", "b", "c">>
RawFormattedPlus == SsnGood \o <<"-", "1", "2">>
RawSsnInputs == {Empty, Raw2Digits, Raw3Digits, Raw4Digits, Raw5Digits, Raw6Digits,
                 Raw10Digits, RawMixed, RawLetters, SsnGood, SsnPadded, SsnUngrouped,
                 SsnWrongGrouping, RawFormattedPlus, <<"1", "2", "3", "-">>,
                 <<"1", "2", "3", "-", "4", "5", "-">>}

NextFormat ==
  \/ InitializeForAdd
  \/ FormViewRender
  \/ FormViewDestroy
  \/ \E raw \in RawSsnInputs : SsnInput(raw)
  \/ Validate
  \/ ClearErrors

SpecFormat == Init /\ [][NextFormat]_vars

\* The application from page load on: bootstrap, fragment changes made by
\* the user or by the views, and the settlements of the requests.
NextApp ==
  \/ Bootstrap
  \/ \E path \in AppPaths : Navigate(path)
  \/ AppHashChange
  \/ \E t \in Pending(l_tasks) : \E o \in GetAllOutcomes : LoadSettle(t, o)
  \/ \E t \in Pending(f_tasks) : \E o \in GetOutcomes : EditSettle(t, o)

SpecApp == Init /\ [][NextApp]_vars

\* The list with its delete confirmations.
ModalLoadOutcomes ==
  { Response(200, TRUE, BodyArr(<<Wire1, Wire2>>)),
    Response(500, TRUE, BodyErr("", "Server exploded")) }

ModalDeleteOutcomes ==
  { Response(200, FALSE, BodyEmpty),
    Response(404, TRUE, BodyErr("Employee not found", "")) }

NextModal ==
  \/ ListViewRender
  \/ LoadEmployees
  \/ \E t \in Pending(l_tasks) : \E o \in ModalLoadOutcomes : LoadSettle(t, o)
  \/ \E id \in Ids : DeleteClick(id)
  \/ \E m \in Pending(m_modals) : ModalConfirm(m)
  \/ \E m \in Pending(m_modals) : ModalHidden(m)
  \/ \E t \in Pending(l_tasks) : \E o \in ModalDeleteOutcomes : DeleteSettle(t, o)

SpecModal == Init /\ [][NextModal]_vars

\* The shared form container across add and edit sessions: the remote
\* service answers a fetch by id with the record of that id, or with 404.
WireFor(id) == IF id = Id1 THEN Wire1 ELSE Wire2
EditOutcomes(t) ==
  { Response(200, TRUE, BodyObj(WireFor(t.log[2].req.target))),
    Response(404, TRUE, BodyErr("Employee not found", "")) }
TypedValues(field) ==
  CASE field = "firstName" -> {NameA}
    [] field = "employeeNo" -> {EmpNo7}

NextEdit ==
  \/ InitializeForAdd
  \/ \E id \in Ids : InitializeForEdit(id)
  \/ \E t \in Pending(f_tasks) : t.pc = "awaitGet" /\ \E o \in EditOutcomes(t) : EditSettle(t, o)
  \/ \E field \in {"firstName", "employeeNo"} : \E value \in TypedValues(field) :
       UpdateField(field, value)
  \/ Submit
  \/ \E t \in Pending(f_tasks) : \E o \in WriteOutcomes : SubmitSettle(t, o)
  \/ FormViewRender

SpecEdit == Init /\ [][NextEdit]_vars

\* The list and the add form under the router: the user fills the form,
\* saves or cancels; the remote service answers.
FlowPaths == {PathRoot, PathAdd}
FlowLoadOutcomes ==
  { Response(200, TRUE, BodyArr(<<Wire1>>)),
    Response(500, TRUE, BodyErr("", "Server exploded")) }
NextFlow ==
  \/ Bootstrap
  \/ \E path \in FlowPaths : Navigate(path)
  \/ AppHashChange
  \/ \E t \in Pending(l_tasks) : \E o \in FlowLoadOutcomes : LoadSettle(t, o)
  \/ \E field \in Fields : \E value \in FieldValues(field) \ {NameA} : FormInput(field, value)
  \/ FormSubmit
  \/ \E t \in Pending(f_tasks) : \E o \in WriteOutcomes : FormSubmitSettle(t, o)

SpecFlow == Init /\ [][NextFlow]_vars

\* The same form when every fetch of an employee succeeds.
NextEditOk ==
  \/ InitializeForAdd
  \/ \E id \in Ids : InitializeForEdit(id)
  \/ \E t \in Pending(f_tasks) :
       t.pc = "awaitGet" /\ \E o \in {x \in EditOutcomes(t) : ResponseOk(x)} : EditSettle(t, o)
  \/ \E field \in {"firstName", "employeeNo"} : \E value \in TypedValues(field) :
       UpdateField(field, value)
  \/ Submit
  \/ \E t \in Pending(f_tasks) : \E o \in WriteOutcomes : SubmitSettle(t, o)
  \/ FormViewRender

SpecEditOk == Init /\ [][NextEditOk]_vars

\* The three views under the router, each request answered with a success
\* or a failure.
ViewPaths == {PathRoot, PathAdd, PathEdit42}
ViewEditOutcomes ==
  { Response(200, TRUE, BodyObj(Wire1)),
    Response(404, TRUE, BodyErr("Employee not found", "")) }

NextViews ==
  \/ Bootstrap
  \/ \E path \in ViewPaths : Navigate(path)
  \/ AppHashChange
  \/ \E t \in Pending(l_tasks) : \E o \in FlowLoadOutcomes : LoadSettle(t, o)
  \/ \E t \in Pending(f_tasks) : \E o \in ViewEditOutcomes : EditSettle(t, o)

SpecViews == Init /\ [][NextViews]_vars

\* The form container when every request eventually settles.
EditSettles ==
  \E t \in Pending(f_tasks) : t.pc = "awaitGet" /\ \E o \in EditOutcomes(t) : EditSettle(t, o)
SubmitSettles == \E t \in Pending(f_tasks) : \E o \in WriteOutcomes : SubmitSettle(t, o)

SpecEditLive == Init /\ [][NextEdit]_vars /\ WF_vars(EditSettles) /\ WF_vars(SubmitSettles)

\* Editing an employee whose wire record carries any status code, and
\* writing it back.
WireStatuses == {StatusCode(0), StatusCode(1), StatusCode(7), StatusCode(-1), UndefinedStatus}
WireWith(status) == [Wire1 EXCEPT !.Status = status]
MapperOutcomes == {Response(200, TRUE, BodyObj(WireWith(s))) : s \in WireStatuses}

NextMapper ==
  \/ InitializeForEdit(Id1)
  \/ \E t \in Pending(f_tasks) : \E o \in MapperOutcomes : EditSettle(t, o)
  \/ UpdateField("employeeNo", EmpNo7)
  \/ \E value \in BOOLEAN : UpdateField("active", value)
  \/ Submit
  \/ \E t \in Pending(f_tasks) : \E o \in WriteOutcomes : SubmitSettle(t, o)

SpecMapper == Init /\ [][NextMapper]_vars

\* The router: registrations, fragment changes and their resolution.
NextRouter ==
  \/ \E path \in Patterns : \E handler \in Handlers : On(path, handler)
  \/ \E path \in Fragments : Navigate(path)
  \/ HashChange

SpecRouter == Init /\ [][NextRouter]_vars

(***************************************************************************)
(* Subscription mechanism (checked under SpecSub).                         *)
(***************************************************************************)
\* fn was passed to subscribe exactly once, and the function that call
\* returned has been invoked.
SubscribedOnceAndUnsubscribed(cb) ==
  /\ Cardinality({h \in 1..Len(l_handles) : l_handles[h].cb = cb}) = 1
  /\ \E h \in 1..Len(l_handles) : l_handles[h].cb = cb /\ l_handles[h].calls >= 1

\* ls without its first cb.
WithoutFirst(ls, cb) ==
  LET i == CHOOSE j \in 1..Len(ls) : ls[j] = cb /\ \A m \in 1..(j - 1) : ls[m] # cb
  IN SubSeq(ls, 1, i - 1) \o SubSeq(ls, i + 1, Len(ls))

\* C1 (first half, which the code keeps): once the only subscription of fn
\* has been unsubscribed, fn is registered no more and no notify() of any
\* later turn calls it.
C1_RemovedListenerNeverInvoked ==
  \A f \in PlainFns :
    SubscribedOnceAndUnsubscribed(Plain(f)) =>
      /\ Plain(f) \notin Range(l_listeners)
      /\ \A i \in 1..Len(ev.notes) : Plain(f) \notin Range(ev.notes[i].called)

\* C1: after unsub = subscribe(fn); unsub(), fn subscribed no other time, no
\* later state mutation invokes fn; the unsub() removes fn's registration and
\* no other; and every later notify() invokes every other listener that is
\* registered when it runs.
C1_UnsubscribedNotInvokedOthersStillInvoked ==
  \A f \in PlainFns :
    SubscribedOnceAndUnsubscribed(Plain(f)) =>
      /\ Plain(f) \notin Range(l_listeners)
      /\ (ev.op = "unsubscribe" /\ ev.cb = Plain(f) /\ ev.nth = 1)
           => l_listeners = WithoutFirst(ev.lsBefore, Plain(f))
      /\ \A i \in 1..Len(ev.notes) :
           /\ Plain(f) \notin Range(ev.notes[i].called)
           /\ \A g \in Range(ev.notes[i].before) : g \in Range(ev.notes[i].called)

\* C2: invoking an unsubscribe function a second or later time leaves the
\* listener list as it is, whatever was subscribed before or in between,
\* the same callback passed to subscribe twice included.
C2_RepeatedUnsubscribeChangesNothing ==
  (ev.op = "unsubscribe" /\ ev.nth >= 2) => l_listeners = ev.lsBefore

\* C3: every notify() calls exactly the listeners registered when it starts,
\* each once, in registration order, also when a listener re-subscribes
\* itself while it is being called.
C3_NotifyCallsRegisteredListenersInOrder ==
  \A i \in 1..Len(ev.notes) : ev.notes[i].called = ev.notes[i].before

(***************************************************************************)
(* EmployeeListViewModel: loading and deleting (checked under Spec).       *)
(* The listeners are assumed to return normally, and the error bodies of   *)
(* the service to carry message and error as JSON strings.                 *)
(***************************************************************************)
Notifications(log) == SelectSeq(log, LAMBDA e : e.k = "notify")
Requests(log) == SelectSeq(log, LAMBDA e : e.k = "request")

\* The part of a finished call's log that its loadEmployees() wrote.
LoadPart(done) == IF done.op = "delete" THEN SubSeq(done.log, 3, Len(done.log)) ELSE done.log

\* C4: a loadEmployees() call notifies in its first turn, once, with state
\* 'loading' and error null, and before its fetch-all request; it notifies
\* once more in the turn its fetch settles, after the settlement; it makes
\* no other notification.
C4_LoadNotifiesExactlyTwice ==
  /\ ev.op \in {"loadEmployees", "deleteSucceeded"} =>
       /\ Len(ev.notes) = 1
       /\ l_state = "loading" /\ l_error = Null
       /\ BagIn(ev.task, l_tasks)
       /\ LET log == ev.task.log
          IN /\ Len(log) >= 2
             /\ SubSeq(log, Len(log) - 1, Len(log)) =
                  <<Notified("loading", Null), Requested(RequestGetAll)>>
  /\ ev.op = "loadSettled" =>
       /\ Len(ev.notes) = 1
       /\ LET p == LoadPart(ev.done)
          IN /\ Len(p) = 4
             /\ p[1] = Notified("loading", Null)
             /\ p[2] = Requested(RequestGetAll)
             /\ p[3] = Settled(ev.ok)
             /\ p[4] = Notified(l_state, l_error)
             /\ Len(Notifications(p)) = 2

\* A load whose fetch failed has returned, with a listener called each time.
C4_Witness ==
  /\ ev.op = "loadSettled" /\ ev.done.op = "load" /\ ~ev.ok
  /\ Len(ev.notes[1].called) >= 1

\* C5: when the fetch of a loadEmployees() settles, a success leaves the
\* collection equal to the fetched one, state 'loaded' and error null; a
\* failure leaves the collection empty, state 'error' and error a non-empty
\* string, the message of the ApiError, else the fixed default.
C5_LoadSettleSetsCollectionStateError ==
  ev.op = "loadSettled" =>
    IF ev.ok
    THEN l_employees = ev.value /\ l_state = "loaded" /\ l_error = Null
    ELSE /\ l_employees = <<>>
         /\ l_state = "error"
         /\ l_error \notin {Null, ""}
         /\ l_error = (IF ev.err.name = "ApiError" THEN ev.err.message
                       ELSE "Failed to load employees. Please try again.")

\* A load that no other call overlaps fails on a server error.
C5_Witness ==
  /\ ev.op = "loadSettled" /\ ev.done.op = "load" /\ ~ev.ok /\ ev.status = 500
  /\ l_tasks = EmptyBag
  /\ l_state = "error" /\ l_employees = <<>>

\* C6: a loadEmployees() whose fetch-all is answered with HTTP 404 ends with
\* an empty collection, state 'loaded' and error null, whatever the body.
C6_NotFoundLoadsEmptyCollection ==
  (ev.op = "loadSettled" /\ ~ev.net /\ ev.status = 404) =>
    l_employees = <<>> /\ l_state = "loaded" /\ l_error = Null

\* C6 for the ApiService that answers 404 itself (models/Employee.ts).
C6_NotFoundLoadsEmptyCollectionClone ==
  apiVariant = "clone" => C6_NotFoundLoadsEmptyCollection

\* C7: a deleteEmployee() whose remove request fails stores a non-empty
\* error, notifies exactly once, returns false, issues no fetch-all, and
\* neither of its turns changes the collection.
C7_DeleteFailureKeepsCollection ==
  /\ ev.op = "deleteEmployee" => l_employees = ev.empsBefore /\ ev.notes = <<>>
  /\ ev.op = "deleteFailed" =>
       /\ l_error \notin {Null, ""}
       /\ l_error = (IF ev.err.name = "ApiError" THEN ev.err.message
                     ELSE "Failed to delete employee. Please try again.")
       /\ Len(ev.notes) = 1
       /\ Len(Notifications(ev.done.log)) = 1
       /\ ev.done.ret = "false"
       /\ \A i \in 1..Len(ev.done.log) : ev.done.log[i] # Requested(RequestGetAll)
       /\ Len(Requests(ev.done.log)) = 1
       /\ l_employees = ev.empsBefore

\* A delete fails while a loaded, non-empty collection is shown.
C7_Witness ==
  /\ ev.op = "deleteFailed"
  /\ l_employees # <<>> /\ l_state = "loaded"
  /\ Len(ev.notes[1].called) >= 1

\* C8: a deleteEmployee() whose remove request succeeds starts one reload in
\* the turn the request settles and has not returned then; it returns true
\* in the turn the reload's fetch settles, also when the reload fails; its
\* notifications are the reload's two and no other.
C8_DeleteSuccessReloadsOnce ==
  /\ ev.op = "deleteSucceeded" =>
       /\ BagIn(ev.task, l_tasks)
       /\ ev.task.op = "delete" /\ ev.task.pc = "awaitFetch"
       /\ Len(ev.notes) = 1
  /\ (ev.op = "loadSettled" /\ ev.done.op = "delete") =>
       LET log == ev.done.log
       IN /\ ev.done.ret = "true"
          /\ Len(log) = 6
          /\ log[1].k = "request" /\ log[1].req.method = "DELETE"
          /\ log[2] = Settled(TRUE)
          /\ log[3] = Notified("loading", Null)
          /\ log[4] = Requested(RequestGetAll)
          /\ log[5] = Settled(ev.ok)
          /\ log[6] = Notified(IF ev.ok THEN "loaded" ELSE "error", l_error)
          /\ l_state = log[6].state
  /\ (ev.op = "deleteFailed") => ev.done.ret # "true"

\* A delete succeeded, its reload failed, and it returned true.
C8_Witness ==
  /\ ev.op = "loadSettled" /\ ev.done.op = "delete" /\ ~ev.ok
  /\ ev.done.ret = "true" /\ l_state = "error"

(***************************************************************************)
(* EmployeeFormViewModel: submit (checked under SpecForm).                 *)
(***************************************************************************)
\* Whether the validator of a field rejects the draft's value.
Failing(formData, field) ==
  CASE field = "firstName" -> ~validateFirstName(formData.firstName).isValid
    [] field = "lastName" -> ~validateLastName(formData.lastName).isValid
    [] field = "ssn" -> ~validateSSN(formData.ssn).isValid
    [] field = "employeeNo" -> ~validateEmployeeNo(formData.employeeNo).isValid

\* C9: a submit() on a draft with a failing field returns false in the turn
\* it is called, issues no request, leaves the lifecycle state as it was,
\* leaves an error in the slot of every failing field (and of no other
\* field), and notifies exactly once.
C9_InvalidSubmitOnlySetsErrors ==
  ev.op = "submitInvalid" =>
    /\ \E field \in Fields : Failing(f_formData, field)
    /\ ev.done.ret = "false"
    /\ ev.requests = <<>> /\ Requests(ev.done.log) = <<>>
    /\ f_state = ev.stateBefore
    /\ \A field \in Fields :
         IF Failing(f_formData, field)
         THEN f_errors[field] \notin {Absent, ""}
         ELSE f_errors[field] = Absent
    /\ Len(ev.notes) = 1 /\ Len(Notifications(ev.done.log)) = 1

\* submit() with firstName "A" as the only failing field, a pending
\* initializeForEdit() having put the state to 'loading', the view listening.
C9_Witness ==
  /\ ev.op = "submitInvalid"
  /\ f_formData.firstName = NameA
  /\ f_errors = [NoErrors EXCEPT !.firstName = "First name must be at least 2 characters"]
  /\ f_state = "loading"
  /\ ev.notes[1].called = <<RenderClosure>>

\* C10: a valid submit() issues exactly one write: an update carrying the id
\* passed to the most recent initializeForEdit() when that call is more
\* recent than any initializeForAdd(), a create otherwise; the mode and the
\* id are at all times those the most recent initialize call set, so no
\* updateField() changes them.
C10_ValidSubmitWritesOnceByMode ==
  /\ ev.op = "submit" =>
       /\ Len(ev.requests) = 1
       /\ IF f_lastInit.mode = "edit"
          THEN /\ ev.requests[1] = RequestUpdate(f_lastInit.id, EmployeeData(f_formData))
               /\ ev.requests[1].method = "PUT"
               /\ ev.requests[1].payload.PersonID = f_lastInit.id
          ELSE /\ ev.requests[1] = RequestCreate(EmployeeData(f_formData))
               /\ ev.requests[1].method = "POST"
  /\ ev.op = "submitSettled" => Len(Requests(ev.done.log)) = 1
  /\ f_isEditMode = (f_lastInit.mode = "edit")
  /\ f_employeeId = (IF f_lastInit.mode = "edit" THEN f_lastInit.id ELSE NullId)

\* A submit in edit mode while an earlier initializeForEdit() is still
\* pending: the update carries the id of the later call.
C10_Witness ==
  /\ ev.op = "submit"
  /\ f_lastInit = [mode |-> "edit", id |-> Id2]
  /\ ev.requests[1].method = "PUT" /\ ev.requests[1].payload.PersonID = Id2
  /\ \E t \in Pending(f_tasks) : t.op = "edit" /\ t.log[2] = Requested(RequestGet(Id1))

\* C11: a submit() on a valid draft notifies exactly three times: in its
\* first turn once inside validate() and once with state 'loading' and no
\* errors, before it issues its write; and once in the turn its write
\* settles.  It ends with state 'success', no errors and the return value
\* true when the write succeeds, and with state 'error', a non-empty
\* errors.general and the return value false when the write fails.
C11_ValidSubmitNotifiesThrice ==
  /\ ev.op = "submit" =>
       /\ Len(ev.notes) = 2
       /\ f_state = "loading" /\ f_errors = NoErrors
       /\ BagIn(ev.task, f_tasks)
       /\ ev.task.log = <<NotifiedByValidate, Notified("loading", NoErrors),
                          Requested(ev.requests[1])>>
  /\ ev.op = "submitSettled" =>
       /\ Len(ev.notes) = 1
       /\ LET log == ev.done.log
          IN /\ Len(log) = 5
             /\ log[1] = NotifiedByValidate
             /\ log[2] = Notified("loading", NoErrors)
             /\ log[3].k = "request"
             /\ log[4] = Settled(ev.ok)
             /\ log[5] = Notified(f_state, f_errors)
             /\ Len(Notifications(log)) = 3
       /\ IF ev.ok
          THEN f_state = "success" /\ f_errors = NoErrors /\ ev.done.ret = "true"
          ELSE /\ f_state = "error"
               /\ f_errors.general \notin {Absent, ""}
               /\ ev.done.ret = "false"

\* A submit returns false on a rejected write, the view having been called.
C11_Witness ==
  /\ ev.op = "submitSettled" /\ ~ev.ok
  /\ f_state = "error" /\ f_errors.general = "SSN already in use"
  /\ ev.done.ret = "false"
  /\ ev.notes[1].called = <<RenderClosure>>

\* C12: initializeForAdd(), whatever the state it is called in (calls
\* pending or not), leaves the draft with four empty strings and active =
\* true, no errors, state 'idle' and isEditMode = false, and makes one
\* notification, in which a listener already reads these values.
C12_InitializeForAddResets ==
  ev.op = "initializeForAdd" =>
    /\ f_formData = [firstName |-> Empty, lastName |-> Empty, ssn |-> Empty,
                     employeeNo |-> Empty, active |-> TRUE]
    /\ \A k \in DOMAIN f_errors : f_errors[k] = Absent
    /\ f_state = "idle"
    /\ f_isEditMode = FALSE
    /\ Len(ev.notes) = 1
    /\ ev.seen = Seen(f_formData, f_errors, f_state, f_isEditMode)

\* initializeForAdd() called while an initializeForEdit() and a submit() are
\* pending, the view listening.
C12_Witness ==
  /\ ev.op = "initializeForAdd"
  /\ \E t \in Pending(f_tasks) : t.op = "edit"
  /\ \E t \in Pending(f_tasks) : t.op = "submit"
  /\ ev.notes[1].called = <<RenderClosure>>

\* C13: an initializeForEdit(id) notifies exactly twice: in its first turn,
\* with state 'loading' and no errors, before it issues its fetch of id; and
\* in the turn the fetch settles, with state 'idle' and no errors when it
\* succeeded, with state 'error' and a non-empty errors.general when it
\* failed.
C13_InitializeForEditNotifiesTwice ==
  /\ ev.op = "initializeForEdit" =>
       /\ Len(ev.notes) = 1
       /\ f_state = "loading" /\ f_errors = NoErrors
       /\ BagIn(ev.task, f_tasks)
       /\ ev.task.log = <<Notified("loading", NoErrors), Requested(RequestGet(f_employeeId))>>
  /\ ev.op = "editSettled" =>
       /\ Len(ev.notes) = 1
       /\ LET log == ev.done.log
          IN /\ Len(log) = 4
             /\ log[1] = Notified("loading", NoErrors)
             /\ log[2].k = "request" /\ log[2].req.method = "GET"
             /\ log[3] = Settled(ev.ok)
             /\ log[4] = Notified(f_state, f_errors)
             /\ Len(Notifications(log)) = 2
       /\ IF ev.ok
          THEN f_state = "idle" /\ f_errors = NoErrors
          ELSE f_state = "error" /\ f_errors.general \notin {Absent, ""}

\* The fetch of an initializeForEdit() fails after a validate() has left a
\* field error, the view listening.
C13_Witness ==
  /\ ev.op = "editSettled" /\ ~ev.ok
  /\ f_errors.general = "Employee not found"
  /\ f_errors.firstName # Absent
  /\ ev.notes[1].called = <<RenderClosure>>

(***************************************************************************)
(* EmployeeFormViewModel: editing and validating the draft (checked under  *)
(* SpecDraft).                                                             *)
(***************************************************************************)
\* C14: an updateField(field, value) step sets that field of the draft to
\* value and changes no other field of it; it removes the error of that field
\* and changes no other error, errors.general included; it leaves the state,
\* the edit-mode flag, the employee id and the pending calls as they are (it
\* issues no request); no error appears (no validator runs); and it notifies
\* exactly once.
C14_UpdateFieldChangesOneField ==
  [][ev'.op = "updateField" =>
        /\ f_formData' = [f_formData EXCEPT ![ev'.field] = ev'.value]
        /\ f_errors' = [k \in DOMAIN f_errors |->
                          IF k = ev'.field THEN Absent ELSE f_errors[k]]
        /\ f_state' = f_state
        /\ f_isEditMode' = f_isEditMode
        /\ f_employeeId' = f_employeeId
        /\ f_tasks' = f_tasks
        /\ Len(ev'.notes) = 1]_vars

\* updateField('lastName', ...) has removed the error of lastName while the
\* errors of firstName and of a failed submit() stay, in state 'error'.
C14_Witness ==
  /\ ev.op = "updateField" /\ ev.field = "lastName"
  /\ f_errors.lastName = Absent
  /\ f_errors.firstName # Absent
  /\ f_errors.general # Absent
  /\ f_state = "error"

\* C15: a validate() step replaces the errors by a mapping that has an entry
\* for firstName, lastName, ssn, employeeNo exactly when the validator of
\* that field rejects the draft's value, and no other entry (an earlier
\* errors.general is gone); it returns true exactly when that mapping is
\* empty; it notifies exactly once, valid or not; it leaves the draft and
\* the state as they are.
C15_ValidateRederivesErrors ==
  [][ev'.op = "validate" =>
        /\ \A field \in Fields : (f_errors'[field] # Absent) <=> Failing(f_formData, field)
        /\ \A k \in (DOMAIN f_errors') \ Fields : f_errors'[k] = Absent
        /\ ev'.ret = (\A k \in DOMAIN f_errors' : f_errors'[k] = Absent)
        /\ Len(ev'.notes) = 1
        /\ f_formData' = f_formData
        /\ f_state' = f_state]_vars

\* validate() has returned false on a draft whose ssn has no hyphens and
\* whose first name is valid, while a submit() is pending.
C15_Witness ==
  /\ ev.op = "validate" /\ ev.ret = FALSE
  /\ f_formData.ssn = SsnUngrouped
  /\ f_errors.ssn = "SSN must be in format XXX-XX-XXXX"
  /\ f_errors.firstName = Absent
  /\ f_state = "loading"

(***************************************************************************)
(* Router: resolution of the fragment (checked under SpecRouter).  F is    *)
(* the fragment as handleRoute() reads it: an empty fragment reads as '/'. *)
(***************************************************************************)
\* No segment of the pattern begins with ':'.
CaptureFree(pattern) ==
  \A i \in 1..Len(pattern) : pattern[i] = Colon => (i > 1 /\ pattern[i - 1] # Slash)

\* The segments of the pattern match those of F.
SegmentsMatch(pattern, F) ==
  /\ Len(Parts(pattern)) = Len(Parts(F))
  /\ \A i \in 1..Len(Parts(pattern)) :
       Head(Parts(pattern)[i]) = Colon \/ Parts(pattern)[i] = Parts(F)[i]

\* The map binding each capture variable of the pattern to its segment of F.
Bindings(pattern, F) ==
  {<<Tail(Parts(pattern)[i]), Parts(F)[i]>> :
     i \in {j \in 1..Len(Parts(pattern)) : Head(Parts(pattern)[j]) = Colon}}

\* C16: when F is textually equal to a registered pattern without capture
\* segment, resolution calls the handler registered for that pattern, without
\* argument, and calls no other handler, wherever in the registration order
\* the pattern stands.
C16_ExactCaptureFreePatternWins ==
  ev.op = "handleRoute" =>
    \A i \in 1..Len(r_routes) :
      (r_routes[i].path = ev.hash /\ CaptureFree(r_routes[i].path)) =>
        ev.calls = <<[path |-> ev.hash, handler |-> r_routes[i].handler, arg |-> NoArgument]>>

\* '/:id' was registered before '/add', and '/add' is resolved.
C16_Witness ==
  /\ ev.op = "handleRoute" /\ ev.fragment = PathAdd
  /\ Has(r_routes, PathId) /\ Has(r_routes, PathAdd)
  /\ EntryOf(r_routes, PathId) < EntryOf(r_routes, PathAdd)
  /\ Len(ev.calls) = 1 /\ ev.calls[1].path = PathAdd /\ ~ev.calls[1].arg.given

\* C17: when F is not textually equal to a registered pattern without
\* capture segment and the segments of some registered pattern match F,
\* resolution calls the handler of the first such pattern in registration
\* order, with the map that binds each capture variable of the pattern to
\* the corresponding segment of F.
C17_FirstMatchingPatternGetsBindings ==
  (/\ ev.op = "handleRoute"
   /\ ~\E i \in 1..Len(r_routes) : r_routes[i].path = ev.hash /\ CaptureFree(r_routes[i].path)
   /\ \E i \in 1..Len(r_routes) : SegmentsMatch(r_routes[i].path, ev.hash)) =>
    LET matching == {i \in 1..Len(r_routes) : SegmentsMatch(r_routes[i].path, ev.hash)}
        i == CHOOSE k \in matching : \A j \in matching : k <= j
    IN ev.calls = <<[path |-> r_routes[i].path, handler |-> r_routes[i].handler,
                     arg |-> Argument(Bindings(r_routes[i].path, ev.hash))]>>

\* C17 for every F that is textually equal to no registered pattern at all,
\* which the code keeps.
C17_FirstMatchingUnlessRegisteredText ==
  (ev.op = "handleRoute" /\ \A i \in 1..Len(r_routes) : r_routes[i].path # ev.hash) =>
    C17_FirstMatchingPatternGetsBindings

\* C18: with '/add' registered before '/:id', resolving the fragment 'add'
\* calls the handler of '/add', and calls it without params; with '/edit/:id'
\* registered, resolving 'edit/42' calls its handler with {id: '42'}.
C18_AddWithoutParamsEditWithId ==
  ev.op = "handleRoute" =>
    /\ (/\ ev.fragment = FragmentAdd
        /\ Has(r_routes, PathAdd) /\ Has(r_routes, PathId)
        /\ EntryOf(r_routes, PathAdd) < EntryOf(r_routes, PathId)) =>
         ev.calls = <<[path |-> PathAdd,
                       handler |-> r_routes[EntryOf(r_routes, PathAdd)].handler,
                       arg |-> NoArgument]>>
    /\ (ev.fragment = FragmentEdit42 /\ Has(r_routes, PathEditId)) =>
         ev.calls = <<[path |-> PathEditId,
                       handler |-> r_routes[EntryOf(r_routes, PathEditId)].handler,
                       arg |-> Argument({<<(<<"i", "d">>), (<<"4", "2">>)>>})]>>

\* C18, its second half and the handler of its first half, which the code
\* keeps.
C18_AddHandlerAndEditWithId ==
  ev.op = "handleRoute" =>
    /\ (/\ ev.fragment = FragmentAdd
        /\ Has(r_routes, PathAdd) /\ Has(r_routes, PathId)
        /\ EntryOf(r_routes, PathAdd) < EntryOf(r_routes, PathId)) =>
         /\ Len(ev.calls) = 1
         /\ ev.calls[1].path = PathAdd
         /\ ev.calls[1].handler = r_routes[EntryOf(r_routes, PathAdd)].handler
         /\ ev.calls[1].arg = Argument(NoParams)
    /\ (ev.fragment = FragmentEdit42 /\ Has(r_routes, PathEditId)) =>
         ev.calls = <<[path |-> PathEditId,
                       handler |-> r_routes[EntryOf(r_routes, PathEditId)].handler,
                       arg |-> Argument({<<(<<"i", "d">>), (<<"4", "2">>)>>})]>>

\* C19: when no registered pattern matches F, textually or by its segments,
\* resolution calls the handler registered for '/', without argument, when
\* there is one, and no handler otherwise; and no resolution calls more than
\* one handler.
C19_FallbackToRootAtMostOneCall ==
  ev.op = "handleRoute" =>
    /\ Len(ev.calls) <= 1
    /\ (\A i \in 1..Len(r_routes) :
          r_routes[i].path # ev.hash /\ ~SegmentsMatch(r_routes[i].path, ev.hash)) =>
         IF \E i \in 1..Len(r_routes) : r_routes[i].path = PathRoot
         THEN \E i \in 1..Len(r_routes) :
                /\ r_routes[i].path = PathRoot
                /\ ev.calls = <<[path |-> PathRoot, handler |-> r_routes[i].handler,
                                 arg |-> NoArgument]>>
         ELSE ev.calls = <<>>

\* 'a/b/c' matches none of the four registered patterns and falls back to
\* the handler of '/', registered last.
C19_Witness ==
  /\ ev.op = "handleRoute" /\ ev.fragment = FragmentDeep
  /\ Len(r_routes) = 4 /\ r_routes[4].path = PathRoot
  /\ ev.calls = <<[path |-> PathRoot, handler |-> r_routes[4].handler, arg |-> NoArgument]>>

(***************************************************************************)
(* Field validators (checked under SpecSsn).                               *)
(***************************************************************************)
\* s is three digits, a hyphen, two digits, a hyphen, four digits, and
\* nothing else.
MatchesSsnFormat(s) ==
  /\ Len(s) = 11
  /\ s[4] = "-" /\ s[7] = "-"
  /\ \A i \in {1, 2, 3, 5, 6, 8, 9, 10, 11} : s[i] \in Digits

\* C20: validateSSN returns valid for every input of the form
\* ddd-dd-dddd and, for every other input (empty, other grouping, more
\* characters, whitespace around it), invalid with a non-empty message.
C20_ValidateSsnAcceptsExactFormatOnly ==
  ev.op = "validate" =>
    LET r == validateSSN(f_formData.ssn)
    IN IF MatchesSsnFormat(f_formData.ssn)
       THEN r.isValid /\ f_errors.ssn = Absent
       ELSE ~r.isValid /\ r.error \notin {Absent, ""} /\ f_errors.ssn = r.error

\* C20 with the format asked of the input without the whitespace around it,
\* which the code keeps.
C20_ValidateSsnAcceptsTrimmedFormat ==
  ev.op = "validate" =>
    LET r == validateSSN(f_formData.ssn)
    IN IF MatchesSsnFormat(trim(f_formData.ssn))
       THEN r.isValid /\ f_errors.ssn = Absent
       ELSE ~r.isValid /\ r.error \notin {Absent, ""} /\ f_errors.ssn = r.error

(***************************************************************************)
(* Name validators (checked under SpecNames).  Letters are a-z and A-Z;    *)
(* space characters are the characters \s matches.                         *)
(***************************************************************************)
\* The trimmed input has between 2 and 50 characters, each a letter, a space
\* character, a hyphen or an apostrophe.
NameAcceptable(s) ==
  /\ Len(trim(s)) >= 2 /\ Len(trim(s)) <= 50
  /\ \A i \in 1..Len(trim(s)) :
       \/ trim(s)[i] \in Letters
       \/ trim(s)[i] \in WhiteSpace
       \/ trim(s)[i] = "-"
       \/ trim(s)[i] = "'"

\* C21: validateFirstName and validateLastName return valid exactly when the
\* trimmed input has 2 to 50 characters, all of them letters, space
\* characters, hyphens or apostrophes; for every other input they return
\* invalid with a non-empty message.
C21_NameValidatorsAcceptTrimmedLengthAndCharacters ==
  ev.op = "validate" =>
    /\ LET r == validateFirstName(f_formData.firstName)
       IN IF NameAcceptable(f_formData.firstName)
          THEN r.isValid /\ f_errors.firstName = Absent
          ELSE ~r.isValid /\ r.error \notin {Absent, ""} /\ f_errors.firstName = r.error
    /\ LET r == validateLastName(f_formData.lastName)
       IN IF NameAcceptable(f_formData.lastName)
          THEN r.isValid /\ f_errors.lastName = Absent
          ELSE ~r.isValid /\ r.error \notin {Absent, ""} /\ f_errors.lastName = r.error

\* validate() has accepted a first name of 50 characters with whitespace
\* around it and rejected a last name of 51.
C21_Witness ==
  /\ ev.op = "validate"
  /\ f_formData.firstName = NameOfMaxLengthPadded /\ f_errors.firstName = Absent
  /\ f_formData.lastName = NameTooLong
  /\ f_errors.lastName = "Last name must be less than 50 characters"

(***************************************************************************)
(* formatSSN (checked under SpecFormat).                                   *)
(***************************************************************************)
\* C22: formatSSN is idempotent: for every value typed into the ssn field,
\* formatting the formatted value gives the formatted value again.
C22_FormatSsnIdempotent ==
  ev.op = "ssnInput" =>
    /\ f_formData.ssn = formatSSN(ev.raw)
    /\ formatSSN(f_formData.ssn) = f_formData.ssn

\* Fourteen characters, nine digits among them, have been formatted.
C22_Witness ==
  /\ ev.op = "ssnInput" /\ ev.raw = RawFormattedPlus
  /\ f_formData.ssn # ev.raw
  /\ Len(f_formData.ssn) = 11

\* The digits of s, in their order.
RECURSIVE DigitsIn(_)
DigitsIn(s) ==
  IF s = <<>> THEN <<>>
  ELSE IF Head(s) \in Digits THEN <<Head(s)>> \o DigitsIn(Tail(s))
  ELSE DigitsIn(Tail(s))

\* The first n elements of s, all of s when it has fewer.
FirstOf(s, n) == [i \in 1..(IF Len(s) < n THEN Len(s) ELSE n) |-> s[i]]

\* C23: formatSSN returns the first at most 9 digits of its input, in their
\* order, with a hyphen after the 3rd when more than 3 are kept and a hyphen
\* after the 5th when more than 5 are kept, and nothing else ('1234567890'
\* gives '123-45-6789', '12' gives '12', '12345' gives '123-45'); when the
\* input has 9 digits or more, validateSSN accepts the result.
C23_FormatSsnKeepsNineDigitsGrouped ==
  ev.op = "ssnInput" =>
    LET kept == FirstOf(DigitsIn(ev.raw), 9)
        result == ev.value
    IN /\ DigitsIn(result) = kept
       /\ Len(result) = Len(kept) + (IF Len(kept) > 3 THEN 1 ELSE 0)
                                   + (IF Len(kept) > 5 THEN 1 ELSE 0)
       /\ Len(kept) > 3 => result[4] = "-"
       /\ Len(kept) > 5 => result[7] = "-"
       /\ ev.raw = Raw10Digits => result = SsnGood
       /\ ev.raw = Raw2Digits => result = <<"1", "2">>
       /\ ev.raw = Raw5Digits => result = <<"1", "2", "3", "-", "4", "5">>
       /\ Len(DigitsIn(ev.raw)) >= 9 => validateSSN(result).isValid
       /\ f_formData.ssn = result

\* Ten digits typed: nine are kept and the result is a valid SSN.
C23_Witness ==
  /\ ev.op = "ssnInput" /\ ev.raw = Raw10Digits
  /\ ev.value = SsnGood
  /\ validateSSN(f_formData.ssn).isValid

(***************************************************************************)
(* C24: a wire status maps to active exactly when it is 0; active is      *)
(* written as Status 0 and inactive as Status 1; so wire -> internal ->    *)
(* wire keeps Status 0 and turns every other status into 1, and internal  *)
(* -> wire -> internal keeps active.  Checked on the mapper and on the     *)
(* edit that reads a wire employee and the submit that writes it back.     *)
(***************************************************************************)
InternalWith(active) == [fromApiResponse(Wire1) EXCEPT !.active = active]
WireOf(request) == [Wire1 EXCEPT !.Status = request.Status]

C24_StatusZeroIsActiveAndRoundTrips ==
  /\ \A s \in WireStatuses :
       /\ fromApiResponse(WireWith(s)).active = (s = StatusCode(0))
       /\ toApiRequest(fromApiResponse(WireWith(s)), Undefined).Status =
            (IF s = StatusCode(0) THEN StatusCode(0) ELSE StatusCode(1))
  /\ \A a \in BOOLEAN :
       /\ toApiRequest(InternalWith(a), Undefined).Status =
            (IF a THEN StatusCode(0) ELSE StatusCode(1))
       /\ fromApiResponse(WireOf(toApiRequest(InternalWith(a), Undefined))).active = a
  /\ (ev.op = "editSettled" /\ ev.ok) =>
       f_formData.active = (ev.outcome.body.items[1].Status = StatusCode(0))
  /\ ev.op = "submit" =>
       ev.requests[1].payload.Status =
         (IF f_formData.active THEN StatusCode(0) ELSE StatusCode(1))

\* An employee whose wire status is 7 has been read as inactive.
C24_Witness ==
  /\ ev.op = "editSettled" /\ ev.ok
  /\ ev.outcome.body.items[1].Status = StatusCode(7)
  /\ ~f_formData.active

(***************************************************************************)
(* C25: an operation of the API client rejects with an ApiError only; for *)
(* a response with a non-success status the error carries that status and *)
(* its message is the JSON body's message / error field, else the raw     *)
(* text of the body when there is any, else the status line; for a        *)
(* transport failure it carries no status.                                 *)
(***************************************************************************)
ExpectedMessage(resp) ==
  IF resp.body.kind = "err" /\ (resp.body.message # "" \/ resp.body.error # "")
  THEN (IF resp.body.message # "" THEN resp.body.message ELSE resp.body.error)
  ELSE IF resp.body.text # "" THEN resp.body.text
  ELSE StatusLine(resp)

C25_RejectsWithApiErrorOfResponse ==
  ((ev.op = "loadSettled" /\ ~ev.ok) \/ ev.op = "deleteFailed") =>
    /\ ev.err.name = "ApiError"
    /\ ev.outcome.net => ev.err.status = 0
    /\ ~ev.outcome.net =>
         /\ ev.err.status = ev.outcome.status
         /\ ev.err.message = ExpectedMessage(ev.outcome)

\* C25 for the ApiService that clones the response before it reads the body
\* (models/Employee.ts).
C25_RejectsWithApiErrorOfResponseClone ==
  apiVariant = "clone" => C25_RejectsWithApiErrorOfResponse

(***************************************************************************)
(* C26: an API-backed operation that fails (loadEmployees, deleteEmployee, *)
(* initializeForEdit, a validated submit) leaves its container in state    *)
(* 'error' with a non-empty message in the general error slot when it has  *)
(* settled, and its promise is fulfilled, not rejected.                    *)
(***************************************************************************)
Fulfilled(done) == done.ret \in {"void", "true", "false"}

C26_LoadFailureLeavesErrorState ==
  (ev.op = "loadSettled" /\ ~ev.ok) =>
    l_state = "error" /\ l_error \notin {Null, ""} /\ Fulfilled(ev.done)

C26_FormFailureLeavesErrorState ==
  (ev.op \in {"editSettled", "submitSettled"} /\ ~ev.ok) =>
    f_state = "error" /\ f_errors.general \notin {Absent, ""} /\ Fulfilled(ev.done)

C26_EveryFailureLeavesErrorState ==
  /\ C26_LoadFailureLeavesErrorState
  /\ C26_FormFailureLeavesErrorState
  /\ ev.op = "deleteFailed" =>
       l_state = "error" /\ l_error \notin {Null, ""} /\ Fulfilled(ev.done)

(***************************************************************************)
(* C27: once bootstrap has registered the routes, the fragment the page    *)
(* was loaded with is resolved without a further fragment change: with an  *)
(* empty fragment the list view is rendered and loadEmployees() has        *)
(* started when init() returns.                                            *)
(***************************************************************************)
ListViewRendered == l_viewUnsub # NoCb /\ l_viewUnsub \in Range(l_listeners)
LoadStarted == \E t \in Pending(l_tasks) : t.op = "load"

C27_BootstrapResolvesInitialFragment ==
  (ev.op = "bootstrap" /\ ev.fragment = NoFragment) =>
    /\ ListViewRendered
    /\ LoadStarted

\* What the routes do once a fragment change has been dispatched.
C27_RootRouteShowsListAndLoads ==
  (ev.op = "route" /\ ev.calls # <<>> /\ ev.calls[1].handler = "showEmployeeList") =>
    /\ ListViewRendered
    /\ LoadStarted

(***************************************************************************)
(* C28: a delete request is issued only by a confirmation in a modal that  *)
(* was opened for that employee, and one confirmation makes one            *)
(* deleteEmployee call; opening a modal and dismissing or cancelling one   *)
(* call neither deleteEmployee nor the API and leave the list container    *)
(* as it is.                                                               *)
(***************************************************************************)
DeleteCall(id) == [op |-> "delete", pc |-> "awaitDelete", log |-> <<Requested(RequestDelete(id))>>]
DeleteRequests(tasks) == {t \in BagToSet(tasks) : t.pc = "awaitDelete"}
NumDeleteRequests(tasks) ==
  BagCardinality([t \in DeleteRequests(tasks) |-> CopiesIn(t, tasks)])

C28_DeleteOnlyOnConfirmation ==
  [][ /\ NumDeleteRequests(l_tasks') > NumDeleteRequests(l_tasks) =>
           /\ ev'.op = "modalConfirm"
           /\ BagIn(ev'.modal, m_modals)
           /\ l_tasks' = Add(l_tasks, DeleteCall(ev'.modal.id))
      /\ ev'.op = "modalConfirm" =>
           NumDeleteRequests(l_tasks') = NumDeleteRequests(l_tasks) + 1
      /\ ev'.op \in {"modalHidden", "deleteClick"} => UNCHANGED listVars
    ]_vars

\* A modal is dismissed unconfirmed while the confirmation of another one
\* has its delete request pending.
C28_Witness ==
  /\ ev.op = "modalHidden" /\ ~ev.modal.wasConfirmed
  /\ NumDeleteRequests(l_tasks) = 1
  /\ \E m \in Pending(m_modals) : m.wasConfirmed

(***************************************************************************)
(* C29: an operation that awaits an API call (loadEmployees,               *)
(* deleteEmployee, initializeForEdit, a validated submit) sets state       *)
(* 'loading' and notifies before it issues its request, and sets the       *)
(* resulting state and notifies again after the request has settled.       *)
(***************************************************************************)
IsLoadingNotification(e) ==
  e.k = "notify" /\ "state" \in DOMAIN e /\ e.state = "loading"
IsResultNotification(e) ==
  e.k = "notify" /\ "state" \in DOMAIN e /\ e.state \in {"loaded", "idle", "success", "error"}

\* Every request of the log directly follows a notification of 'loading'.
LoadingNotifiedBeforeRequests(log) ==
  \A i \in 1..Len(log) :
    log[i].k = "request" => (i > 1 /\ IsLoadingNotification(log[i - 1]))

\* The log ends with a settlement and the notification of its result.
ResultNotifiedAfterSettle(log) ==
  /\ Len(log) >= 2
  /\ log[Len(log) - 1].k = "settled"
  /\ IsResultNotification(log[Len(log)])

C29_ListLoadNotifiesAroundRequest ==
  /\ ev.op \in {"loadEmployees", "deleteSucceeded"} =>
       /\ l_state = "loading"
       /\ IsLoadingNotification(ev.task.log[Len(ev.task.log) - 1])
       /\ ev.task.log[Len(ev.task.log)].k = "request"
  /\ ev.op = "loadSettled" =>
       /\ LoadingNotifiedBeforeRequests(LoadPart(ev.done))
       /\ ResultNotifiedAfterSettle(ev.done.log)
       /\ l_state = ev.done.log[Len(ev.done.log)].state

C29_FormNotifiesAroundRequest ==
  /\ ev.op \in {"initializeForEdit", "submit"} =>
       /\ f_state = "loading"
       /\ LoadingNotifiedBeforeRequests(ev.task.log)
  /\ ev.op \in {"editSettled", "submitSettled"} =>
       /\ LoadingNotifiedBeforeRequests(ev.done.log)
       /\ ResultNotifiedAfterSettle(ev.done.log)
       /\ f_state = ev.done.log[Len(ev.done.log)].state

C29_EveryOperationNotifiesAroundRequest ==
  /\ C29_ListLoadNotifiesAroundRequest
  /\ C29_FormNotifiesAroundRequest
  /\ ev.op = "deleteEmployee" =>
       /\ l_state = "loading"
       /\ LoadingNotifiedBeforeRequests(ev.task.log)
  /\ ev.op \in {"loadSettled", "deleteFailed"} =>
       /\ LoadingNotifiedBeforeRequests(ev.done.log)
       /\ ResultNotifiedAfterSettle(ev.done.log)

(***************************************************************************)
(* C30: when operations overlap on the list container, each completion     *)
(* writes its own result in the turn its request settles and notifies      *)
(* after the write, whatever calls are still pending and whenever they     *)
(* were started; so the collection, state and error left when all have     *)
(* settled are those of the request that settled last.                     *)
(***************************************************************************)
WrittenBy(ok, value, err) ==
  IF ok THEN <<value, "loaded", Null>>
  ELSE <<<<>>, "error", ErrorMessage(err, "Failed to load employees. Please try again.")>>

C30_CompletionsApplyInSettleOrder ==
  /\ ev.op = "loadSettled" =>
       /\ <<l_employees, l_state, l_error>> = WrittenBy(ev.ok, ev.value, ev.err)
       /\ Len(ev.notes) = 1
       /\ ev.done.log[Len(ev.done.log)] = Notified(l_state, l_error)
  /\ ev.op = "deleteFailed" =>
       /\ l_error = ErrorMessage(ev.err, "Failed to delete employee. Please try again.")
       /\ Len(ev.notes) = 1
       /\ ev.done.log[Len(ev.done.log)] = Notified(l_state, l_error)

\* A load that started while another one was pending fails before that one
\* has settled, with a listener called.
C30_Witness ==
  /\ ev.op = "loadSettled" /\ ev.done.op = "load" /\ ev.overlapped = 1 /\ ~ev.ok
  /\ \E p \in Pending(l_tasks) : p.op = "load" /\ p.overlapped = 0
  /\ l_state = "error"
  /\ Len(ev.notes[1].called) >= 1

(***************************************************************************)
(* C31: a fetch of initializeForEdit() that settles successfully after     *)
(* initializeForAdd() has run still overwrites the draft with the fetched  *)
(* employee, sets state 'idle' and notifies, while isEditMode stays false; *)
(* a valid submit() in that mode dispatches a create with the draft's      *)
(* data.                                                                   *)
(***************************************************************************)
C31_SupersededFetchOverwritesAddDraft ==
  /\ (ev.op = "editSettled" /\ ev.ok /\ f_lastInit.mode = "add") =>
       /\ f_formData = DraftOf(ev.value)
       /\ f_state = "idle"
       /\ ~f_isEditMode /\ f_employeeId = NullId
       /\ Len(ev.notes) = 1
       /\ f_viewUnsub \in Range(ev.notes[1].before) => f_viewUnsub \in Range(ev.notes[1].called)
  /\ (ev.op = "submit" /\ f_lastInit.mode = "add") =>
       /\ ev.requests[1].method = "POST"
       /\ ev.requests[1].payload.FirstName = trim(f_formData.firstName)
       /\ ev.requests[1].payload.LastName = trim(f_formData.lastName)
       /\ ev.requests[1].payload.SSN = trim(f_formData.ssn)

\* A create is dispatched from the add form with the names of a fetched
\* employee, which nobody typed.
C31_Witness ==
  /\ ev.op = "submit" /\ f_lastInit.mode = "add"
  /\ ev.requests[1].method = "POST"
  /\ \E id \in Ids : /\ ev.requests[1].payload.FirstName = WireFor(id).FirstName
                      /\ ev.requests[1].payload.LastName = WireFor(id).LastName
  /\ f_viewUnsub \in Range(f_listeners)

(***************************************************************************)
(* C32: the collection changes only by being replaced with the result of   *)
(* a fetch-all or by being emptied on a failed load; and every successful  *)
(* mutation is followed by a fetch-all before the list is shown as loaded  *)
(* again: the turn in which a submit settles successfully leaves a change  *)
(* of route to '/' to be handled, and the '/' handler starts a fetch-all.  *)
(***************************************************************************)
FetchAllIssued(call, tasks) ==
  /\ BagIn(call, tasks)
  /\ call.log[Len(call.log)] = Requested(RequestGetAll)

C32_CollectionOnlyReplacedByFetch ==
  [][ l_employees' # l_employees =>
        /\ ev'.op = "loadSettled"
        /\ l_employees' = (IF ev'.ok THEN ev'.value ELSE <<>>)
    ]_vars

\* A successful delete starts the reload in the turn in which it settles.
C32_DeleteRefetches ==
  ev.op = "deleteSucceeded" => l_state = "loading" /\ FetchAllIssued(ev.task, l_tasks)

C32_EveryMutationIsFollowedByFetchAll ==
  [][ /\ l_employees' # l_employees =>
           /\ ev'.op = "loadSettled"
           /\ l_employees' = (IF ev'.ok THEN ev'.value ELSE <<>>)
      /\ (ev'.op = "route" /\ ev'.calls # <<>> /\ ev'.calls[1].handler = "showEmployeeList") =>
           l_state' = "loading" /\ FetchAllIssued(ev'.task, l_tasks')
      /\ (ev'.op = "submitSettled" /\ ev'.ok) =>
           r_events' > 0 /\ r_fragment' = PathRoot
    ]_vars

(***************************************************************************)
(* C33: after a successful initializeForEdit(id) every field of the draft  *)
(* equals the corresponding value of the fetched record (an absent         *)
(* employee number reads as the empty text), with active = (Status = 0);   *)
(* and a record whose fields are all valid yields a draft without          *)
(* validation errors.                                                      *)
(***************************************************************************)
FetchedRecord(outcome) == outcome.body.items[1]

ExpectedDraft(w) ==
  [firstName |-> w.FirstName,
   lastName |-> w.LastName,
   ssn |-> w.SSN,
   employeeNo |-> (IF w.EmployeeNo = Undefined THEN Empty ELSE w.EmployeeNo),
   active |-> (w.Status = StatusCode(0))]

C33_EditDraftEqualsFetchedRecord ==
  (ev.op = "editSettled" /\ ev.ok) =>
    /\ f_formData = ExpectedDraft(FetchedRecord(ev.outcome))
    /\ NoKeys(ValidationErrors(ExpectedDraft(FetchedRecord(ev.outcome)))) =>
         NoKeys(ValidationErrors(f_formData))

(***************************************************************************)
(* C34: no form or list state survives a navigation.  When the edit form   *)
(* is activated for an id the draft holds nothing of an earlier session,   *)
(* while the fetch is pending and after it has failed; when the list is    *)
(* activated it is not shown as loaded with the collection of an earlier   *)
(* activation.                                                             *)
(***************************************************************************)
Activated(handler) ==
  ev.op = "route" /\ ev.calls # <<>> /\ ev.calls[1].handler = handler

C34_NothingSurvivesNavigation ==
  /\ (Activated("showEditEmployeeForm") /\ ParamId(ev.calls[1].arg) # <<>>) =>
       f_formData = EmptyFormData
  /\ (ev.op = "editSettled" /\ ~ev.ok) => f_formData = EmptyFormData
  /\ Activated("showEmployeeList") => l_state = "loading"

(***************************************************************************)
(* C35: in edit mode the draft belongs to the employee that submit() will  *)
(* update.  Once the overlapping initializeForEdit calls have all settled  *)
(* successfully the draft holds the data of the employee asked for last,   *)
(* in whatever order the fetches resolved, and an update sent then carries *)
(* the last name of the employee it updates (nobody types a last name).    *)
(***************************************************************************)
NoFetchPending == \A t \in Pending(f_tasks) : t.pc # "awaitGet"

C35_EditDraftBelongsToUpdatedEmployee ==
  /\ (ev.op = "editSettled" /\ f_lastInit.mode = "edit" /\ NoFetchPending) =>
       f_formData = DraftOf(fromApiResponse(WireFor(f_employeeId)))
  /\ (ev.op = "submit" /\ f_lastInit.mode = "edit" /\ NoFetchPending) =>
       /\ ev.requests[1].method = "PUT"
       /\ ev.requests[1].payload.LastName = WireFor(ev.requests[1].target).LastName

(***************************************************************************)
(* C36: in every reachable state of the form container, state = 'loading'  *)
(* implies that an initializeForEdit or a submit request is in flight;     *)
(* so with no request in flight the state is idle, success or error.       *)
(***************************************************************************)
InFlight == {t \in Pending(f_tasks) : t.pc \in {"awaitGet", "awaitWrite"}}

C36_LoadingImpliesRequestInFlight ==
  /\ f_state = "loading" => InFlight # {}
  /\ InFlight = {} => f_state \in {"idle", "success", "error"}

\* A fetch has just failed while a submit is still in flight, after the form
\* was loading with both of them pending.
C36_Witness ==
  /\ ev.op = "editSettled" /\ ~ev.ok
  /\ f_state = "error"
  /\ \E t \in InFlight : t.pc = "awaitWrite"

(***************************************************************************)
(* C37: under the composition of main.ts each view model has at most one   *)
(* registered listener at any time, that listener is the closure of the    *)
(* view on display (so the two containers never both have one), and a      *)
(* completion that arrives after its view was destroyed re-renders nobody. *)
(***************************************************************************)
ListenersOf(viewUnsub) == IF viewUnsub = NoCb THEN <<>> ELSE <<viewUnsub>>

C37_OneListenerOfTheDisplayedView ==
  /\ Len(l_listeners) <= 1 /\ Len(f_listeners) <= 1
  /\ l_listeners = ListenersOf(l_viewUnsub)
  /\ f_listeners = ListenersOf(f_viewUnsub)
  /\ l_listeners = <<>> \/ f_listeners = <<>>
  /\ (ev.op = "loadSettled" /\ l_viewUnsub = NoCb) => ev.notes[1].called = <<>>
  /\ (ev.op = "editSettled" /\ f_viewUnsub = NoCb) => ev.notes[1].called = <<>>

\* A fetch-all started by the list view settles while the form view is on
\* display: the list view was destroyed and is not rendered again.
C37_Witness ==
  /\ ev.op = "loadSettled"
  /\ l_viewUnsub = NoCb /\ l_listeners = <<>>
  /\ f_listeners = <<RenderClosure>>
  /\ ev.notes[1].called = <<>>

(***************************************************************************)
(* C38: in both containers the lifecycle state and the general error slot  *)
(* agree in every reachable state: state = 'error' implies a non-empty     *)
(* general error message (list: error; form: errors.general), and in the   *)
(* list container a non-empty error implies state = 'error'.               *)
(***************************************************************************)
C38_ListStateAndErrorAgree ==
  /\ l_state = "error" => (l_error # Null /\ l_error # "")
  /\ (l_error # Null /\ l_error # "") => l_state = "error"

C38_FormErrorStateHasMessage ==
  f_state = "error" => (f_errors.general # Absent /\ f_errors.general # "")

C38_ErrorStateAndMessageAgree ==
  /\ C38_ListStateAndErrorAgree
  /\ C38_FormErrorStateHasMessage

(***************************************************************************)
(* C39: after a successful fetch-all the collection has exactly one        *)
(* employee per wire record of the response, in the same order; a success  *)
(* response with an empty or a non-JSON body yields the empty collection,  *)
(* never an employee with undefined fields.                                *)
(***************************************************************************)
WireRecords(body) == IF body.kind \in {"arr", "obj"} THEN body.items ELSE <<>>

C39_OneEmployeePerWireRecord ==
  (ev.op = "loadSettled" /\ ev.ok) =>
    /\ l_employees = MapFromApi(WireRecords(ev.outcome.body))
    /\ \A i \in 1..Len(l_employees) : l_employees[i].id # Undefined

(***************************************************************************)
(* C40: if every request eventually settles, every call completes with its *)
(* promise fulfilled, never rejected, and the container eventually leaves  *)
(* 'loading': once the requests started on it have all settled its state   *)
(* is loaded or error (list).                                              *)
(***************************************************************************)
ListSettleOps == {"loadSettled", "deleteFailed"}

C40_CallsCompleteAndLoadingEnds ==
  /\ [](ev.op \in ListSettleOps => Fulfilled(ev.done))
  /\ []((ev.op \in ListSettleOps /\ l_tasks = EmptyBag) => l_state \in {"loaded", "error"})
  /\ (l_tasks # EmptyBag) ~> (l_state # "loading")

\* The form container, whose every completion writes the state, leaves
\* 'loading' and fulfils every call.
C40_FormLeavesLoading ==
  /\ [](ev.op \in {"editSettled", "submitSettled"} => Fulfilled(ev.done))
  /\ [](f_tasks = EmptyBag => f_state \in {"idle", "success", "error"})
  /\ (f_state = "loading") ~> (f_state # "loading")

\* The parts of it that hold: every completed call is fulfilled, and a
\* pending fetch-all takes the list out of 'loading'.
C40_FetchAllEndsLoading ==
  /\ [](ev.op \in ListSettleOps => Fulfilled(ev.done))
  /\ (\E t \in Pending(l_tasks) : t.pc = "awaitFetch") ~> (l_state # "loading")

====
